---- MODULE Spec2Model ----
(***************************************************************************)
(* Model of the Mandelbrot computation engine of mandelbrot_fast           *)
(* (src/src/mandelbrot_compute.c): the precision dispatcher                *)
(* compute_mandelbrot_str, the query get_precision_mode, the scalar        *)
(* double / long double kernels, the perturbation kernel (reference        *)
(* orbit, linear approximation, 4-lane SIMD loop, scalar tail) and the     *)
(* OpenMP row/pixel distribution.                                          *)
(*                                                                         *)
(* Numbers.  The C types double, long double and __float128 are binary     *)
(* floating point.  They are modelled as decimal floating point values     *)
(* [m |-> mantissa, e |-> exponent] standing for m * 10^e, normalised to   *)
(* a fixed number of significant digits per type (DoubleDigits,            *)
(* LongDigits, QuadDigits) and rounded toward zero.  The model keeps what  *)
(* the code's control flow depends on: limited precision that grows from   *)
(* double to quad, absorption of small addends, a wide exponent range,     *)
(* and rounding at every operation.  NaN is modelled where the code can    *)
(* produce it: in the smooth-value formula (SmoothClass) and in max_dc     *)
(* for a zero width or height (MaxDcIsNaN).                                *)
(***************************************************************************)
EXTENDS Integers, Sequences, FiniteSets, TLC

\* ------------------------------------------------------------------ bounds
\* Significant decimal digits kept by the model of double.
DoubleDigits == 3
\* Largest width, height, max_iter and thread count of a frame request.
MaxWidth == 5
MaxHeight == 2
MaxIter == 5
MaxWorkers == 2

\* Significant digits of the models of long double and __float128.
LongDigits == DoubleDigits + 1
QuadDigits == DoubleDigits + 2

\* -------------------------------------------------- decimal floating point
Pow10Tab == <<1, 10, 100, 1000, 10000, 100000, 1000000, 10000000,
              100000000, 1000000000>>
Pow10(k) == Pow10Tab[k + 1]

Abs(x) == IF x < 0 THEN -x ELSE x
Sgn(x) == IF x < 0 THEN -1 ELSE IF x = 0 THEN 0 ELSE 1
Min(a, b) == IF a <= b THEN a ELSE b

NumDigits(n) ==
    IF n < 10 THEN 1 ELSE IF n < 100 THEN 2 ELSE IF n < 1000 THEN 3
    ELSE IF n < 10000 THEN 4 ELSE IF n < 100000 THEN 5
    ELSE IF n < 1000000 THEN 6 ELSE IF n < 10000000 THEN 7
    ELSE IF n < 100000000 THEN 8 ELSE IF n < 1000000000 THEN 9 ELSE 10

FZero == [m |-> 0, e |-> 0]

\* Rounding of m * 10^e (m /= 0, of d digits) to P significant digits,
\* toward zero.
FRound(m, e, P, d) ==
    IF d > P
    THEN [m |-> Sgn(m) * (Abs(m) \div Pow10(d - P)), e |-> e + (d - P)]
    ELSE [m |-> m * Pow10(P - d), e |-> e - (P - d)]

FNorm(m, e, P) == IF m = 0 THEN FZero ELSE FRound(m, e, P, NumDigits(Abs(m)))

FInt(n, P) == FNorm(n, 0, P)
FCast(a, P) == FNorm(a.m, a.e, P)
FNeg(a) == [m |-> -a.m, e |-> a.e]

\* hi + lo in P digits, hi.e - lo.e = d >= 0: hi is scaled up by g guard
\* digits and lo is cut to the same exponent.
FAlign(hi, lo, P, d, g) ==
    FNorm(hi.m * Pow10(g)
            + (IF d - g > 9 THEN 0 ELSE Sgn(lo.m) * (Abs(lo.m) \div Pow10(d - g))),
          hi.e - g, P)

FAddOrd(hi, lo, P) == FAlign(hi, lo, P, hi.e - lo.e, Min(hi.e - lo.e, 9 - P))

\* a + b in P digits.
FAdd(a, b, P) ==
    IF a.m = 0 THEN b
    ELSE IF b.m = 0 THEN a
    ELSE FAddOrd(IF a.e >= b.e THEN a ELSE b, IF a.e >= b.e THEN b ELSE a, P)

FSub(a, b, P) == FAdd(a, FNeg(b), P)

\* x * y * sg * 10^e in P digits, the product formed in two halves split at
\* 10^s.
FMulSplit(x, y, sg, e, s, P) ==
    FNorm(sg * ((x \div Pow10(s)) * y + ((x % Pow10(s)) * y) \div Pow10(s)),
          e + s, P)

\* a * b in P digits.
FMul(a, b, P) ==
    FMulSplit(Abs(a.m), Abs(b.m), Sgn(a.m) * Sgn(b.m), a.e + b.e,
              IF P > 4 THEN 3 ELSE 0, P)

\* a / n for a non-zero integer n.
FDivInt(a, n, P) ==
    FNorm(Sgn(a.m) * Sgn(n) * ((Abs(a.m) * Pow10(9 - P)) \div Abs(n)),
          a.e - (9 - P), P)

FGt(a, b, P) == FSub(a, b, P).m > 0
FLt(a, b, P) == FSub(a, b, P).m < 0

RECURSIVE ISqrtSearch(_, _, _)
ISqrtSearch(n, lo, hi) ==
    IF lo >= hi THEN lo
    ELSE IF ((lo + hi + 1) \div 2) * ((lo + hi + 1) \div 2) <= n
         THEN ISqrtSearch(n, (lo + hi + 1) \div 2, hi)
         ELSE ISqrtSearch(n, lo, ((lo + hi + 1) \div 2) - 1)

ISqrt(n) == ISqrtSearch(n, 0, 46340)

FSqrtShift(a, k, P) == FNorm(ISqrt(a.m * Pow10(k)), (a.e - k) \div 2, P)

\* sqrt(a) in P digits, a >= 0.
FSqrt(a, P) ==
    FSqrtShift(a, IF (a.e - (9 - P)) % 2 = 0 THEN 9 - P ELSE 8 - P, P)

\* --------------------------------------------------------- string parsing
Digits == {"0", "1", "2", "3", "4", "5", "6", "7", "8", "9"}
DigitVal(c) ==
    CASE c = "0" -> 0 [] c = "1" -> 1 [] c = "2" -> 2 [] c = "3" -> 3
      [] c = "4" -> 4 [] c = "5" -> 5 [] c = "6" -> 6 [] c = "7" -> 7
      [] c = "8" -> 8 [] c = "9" -> 9

\* Longest run of digits of s from position i on: v is acc extended by the
\* digits read, n the number of digits read, i the position after them.
RECURSIVE ScanDigits(_, _, _, _)
ScanDigits(s, i, acc, cnt) ==
    IF i <= Len(s) /\ s[i] \in Digits
    THEN ScanDigits(s, i + 1, acc * 10 + DigitVal(s[i]), cnt + 1)
    ELSE [v |-> acc, n |-> cnt, i |-> i]

RECURSIVE SkipSpace(_, _)
SkipSpace(s, i) == IF i <= Len(s) /\ s[i] = " " THEN SkipSpace(s, i + 1) ELSE i

IsSign(s, i) == i <= Len(s) /\ s[i] \in {"+", "-"}
IsMinus(s, i) == i <= Len(s) /\ s[i] = "-"

\* The exponent after an "e": its digits ep with the sign before them; an
\* "e" without digits is not part of the number.
ExpValue(eneg, ep) == IF ep.n = 0 THEN 0 ELSE IF eneg THEN -ep.v ELSE ep.v
ScanExp(s, j) ==
    ExpValue(IsMinus(s, j), ScanDigits(s, IF IsSign(s, j) THEN j + 1 ELSE j, 0, 0))

\* The number with digits fp.v, fp.n of them after the point, and the
\* exponent that follows at fp.i, if any.
ParseExp(s, neg, fp) ==
    FNorm((IF neg THEN -1 ELSE 1) * fp.v,
          (IF fp.i <= Len(s) /\ s[fp.i] \in {"e", "E"} THEN ScanExp(s, fp.i + 1) ELSE 0)
            - fp.n,
          QuadDigits)

ParseFrac(s, neg, nint, fp) ==
    IF nint + fp.n = 0 THEN FZero ELSE ParseExp(s, neg, fp)

ParseMant(s, neg, ip) ==
    ParseFrac(s, neg, ip.n,
              IF ip.i <= Len(s) /\ s[ip.i] = "." THEN ScanDigits(s, ip.i + 1, ip.v, 0)
              ELSE [v |-> ip.v, n |-> 0, i |-> ip.i])

ParseSigned(s, i) ==
    ParseMant(s, IsMinus(s, i), ScanDigits(s, IF IsSign(s, i) THEN i + 1 ELSE i, 0, 0))

\* strtoflt128(s, NULL): the value of the longest prefix of s, after leading
\* blanks, that is a decimal floating-point literal; 0 when there is none.
\* The end pointer is NULL, so the caller cannot tell "0" from no conversion.
STRTOREAL128(s) == ParseSigned(s, SkipSpace(s, 1))

\* ------------------------------------------------------------ output cells
\* A cell of the output grid.  kind = "unwritten": not stored to during this
\* call.  kind = "sentinel": the integer -max_iter, held in iter.  kind =
\* "smooth": the value iter + 1.0 - log(log(mod) / log 2) / log 2.
Unwritten == [kind |-> "unwritten", iter |-> 0, mod |-> FZero]
Sentinel(max_iter) == [kind |-> "sentinel", iter |-> -max_iter, mod |-> FZero]
Smooth(i, modulus) == [kind |-> "smooth", iter |-> i, mod |-> modulus]

\* 2^(2^k) in double, by repeated squaring.
RECURSIVE TwoPowTwoPow(_)
TwoPowTwoPow(k) ==
    IF k <= 0 THEN FInt(2, DoubleDigits)
    ELSE LET h == TwoPowTwoPow(k - 1) IN FMul(h, h, DoubleDigits)

\* The class of the double i + 1.0 - log(log(modulus) / log 2) / log 2.
\* modulus < 1 (0 included): log(modulus) is negative or -inf and its log is
\* NaN.  modulus = 1: log(0) = -inf and the value is +inf.  modulus > 1: the
\* value is finite and is > 0 exactly when log2(log2(modulus)) < i + 1, that
\* is modulus < 2^(2^(i+1)).
SmoothClass(i, modulus) ==
    IF FLt(modulus, FInt(1, DoubleDigits), DoubleDigits) THEN "nan"
    ELSE IF modulus = FInt(1, DoubleDigits) THEN "pos"
    ELSE IF i + 1 <= 0 THEN "nonpos"
    ELSE IF FLt(modulus, TwoPowTwoPow(i + 1), DoubleDigits) THEN "pos"
    ELSE "nonpos"

\* The class of a written cell: "pos", "nonpos" (finite, <= 0), "nan".
CellClass(c) ==
    IF c.kind = "smooth" THEN SmoothClass(c.iter, c.mod)
    ELSE IF c.iter > 0 THEN "pos" ELSE "nonpos"

\* ----------------------------------------------------------- scalar kernels
\* q * (q + (cr - 0.25)) < 0.25 * ci * ci, with a = cr - 0.25, in double.
CardioidTest(a, q, ci, P) ==
    FLt(FMul(q, FAdd(q, a, P), P), FMul(FMul(FNorm(25, -2, P), ci, P), ci, P), P)

CardioidQ(a, ci, P) == CardioidTest(a, FAdd(FMul(a, a, P), FMul(ci, ci, P), P), ci, P)

\* The cardioid test of the scalar kernels, evaluated in double.
InCardioid(cr, ci) ==
    CardioidQ(FSub(cr, FNorm(25, -2, DoubleDigits), DoubleDigits), ci, DoubleDigits)

\* The loop of a scalar kernel in P digits from iteration i on.
RECURSIVE PointLoop(_, _, _, _, _, _, _, _, _)
PointStep(cr, ci, nzr, nzi, i, max_iter, P) ==
    PointLoop(cr, ci, nzr, nzi, FMul(nzr, nzr, P), FMul(nzi, nzi, P), i, max_iter, P)

PointTestRadius2(cr, ci, zr, zi, zr2, zi2, i, max_iter, P, modulus) ==
    IF FGt(modulus, FInt(4, P), P)
    THEN Smooth(i, FCast(modulus, DoubleDigits))
    ELSE PointStep(cr, ci, FAdd(FSub(zr2, zi2, P), cr, P),
                   FAdd(FMul(FMul(FInt(2, P), zr, P), zi, P), ci, P),
                   i + 1, max_iter, P)

PointTest(cr, ci, zr, zi, zr2, zi2, i, max_iter, P, modulus) ==
    IF FGt(modulus, FInt(256, P), P)
    THEN Smooth(i, FCast(modulus, DoubleDigits))
    ELSE PointStep(cr, ci, FAdd(FSub(zr2, zi2, P), cr, P),
                   FAdd(FMul(FMul(FInt(2, P), zr, P), zi, P), ci, P),
                   i + 1, max_iter, P)

PointLoopShort(cr, ci, zr, zi, zr2, zi2, i, max_iter, P) ==
    IF i >= max_iter - 1 THEN Sentinel(max_iter)
    ELSE PointTest(cr, ci, zr, zi, zr2, zi2, i, max_iter, P, FAdd(zr2, zi2, P))

PointLoop(cr, ci, zr, zi, zr2, zi2, i, max_iter, P) ==
    IF i >= max_iter THEN Sentinel(max_iter)
    ELSE PointTest(cr, ci, zr, zi, zr2, zi2, i, max_iter, P, FAdd(zr2, zi2, P))

mandelbrot_point_smooth_double(cr, ci, max_iter) ==
    IF InCardioid(cr, ci) THEN Sentinel(max_iter)
    ELSE PointLoop(cr, ci, FZero, FZero, FZero, FZero, 0, max_iter, DoubleDigits)

mandelbrot_point_smooth_long(cr, ci, max_iter) ==
    IF InCardioid(FCast(cr, DoubleDigits), FCast(ci, DoubleDigits))
    THEN Sentinel(max_iter)
    ELSE PointLoop(cr, ci, FZero, FZero, FZero, FZero, 0, max_iter, LongDigits)

\* ------------------------------------------------------- precision dispatch
\* w = xmax - xmin in quad.
ViewWidth(xmin_str, xmax_str) ==
    FSub(STRTOREAL128(xmax_str), STRTOREAL128(xmin_str), QuadDigits)

ModeOf(w) ==
    IF FGt(w, FNorm(1, -13, QuadDigits), QuadDigits) THEN 0
    ELSE IF FGt(w, FNorm(1, -18, QuadDigits), QuadDigits) THEN 1
    ELSE 3

get_precision_mode(xmin_str, xmax_str, width) == ModeOf(ViewWidth(xmin_str, xmax_str))

BranchOfInclusive(w_real) ==
    IF ~FLt(w_real, FNorm(1, -13, QuadDigits), QuadDigits) THEN "double"
    ELSE IF ~FLt(w_real, FNorm(1, -17, QuadDigits), QuadDigits) THEN "long"
    ELSE "perturbation"

BranchOf(w_real) ==
    IF FGt(w_real, FNorm(1, -13, QuadDigits), QuadDigits) THEN "double"
    ELSE IF FGt(w_real, FNorm(1, -17, QuadDigits), QuadDigits) THEN "long"
    ELSE "perturbation"

\* The branch compute_mandelbrot_str takes.
Dispatch(xmin_str, xmax_str) == BranchOf(ViewWidth(xmin_str, xmax_str))

\* The pixel steps (xmax - xmin) / width and (ymax - ymin) / height in quad.
dx_q(a) ==
    FDivInt(FSub(STRTOREAL128(a.xmax_str), STRTOREAL128(a.xmin_str), QuadDigits),
            a.width, QuadDigits)
dy_q(a) ==
    FDivInt(FSub(STRTOREAL128(a.ymax_str), STRTOREAL128(a.ymin_str), QuadDigits),
            a.height, QuadDigits)

\* xmin + dx * px in P digits, all of xmin, dx already cast to P digits.
PixelCoord(lo, step, n, P) == FAdd(lo, FMul(step, FInt(n, P), P), P)

\* The value the double branch stores for pixel (px, py).
DoubleCell(a, px, py) ==
    mandelbrot_point_smooth_double(
        PixelCoord(FCast(STRTOREAL128(a.xmin_str), DoubleDigits),
                   FCast(dx_q(a), DoubleDigits), px, DoubleDigits),
        PixelCoord(FCast(STRTOREAL128(a.ymin_str), DoubleDigits),
                   FCast(dy_q(a), DoubleDigits), py, DoubleDigits),
        a.max_iter)

\* The value the long double branch stores for pixel (px, py).
LongCell(a, px, py) ==
    mandelbrot_point_smooth_long(
        PixelCoord(FCast(STRTOREAL128(a.xmin_str), LongDigits),
                   FCast(dx_q(a), LongDigits), px, LongDigits),
        PixelCoord(FCast(STRTOREAL128(a.ymin_str), LongDigits),
                   FCast(dy_q(a), LongDigits), py, LongDigits),
        a.max_iter)

\* ------------------------------------------------------ perturbation kernel
\* The arguments compute_mandelbrot_str passes to the perturbation kernel.
center_r(a) ==
    FDivInt(FAdd(STRTOREAL128(a.xmin_str), STRTOREAL128(a.xmax_str), QuadDigits),
            2, QuadDigits)
center_i(a) ==
    FDivInt(FAdd(STRTOREAL128(a.ymin_str), STRTOREAL128(a.ymax_str), QuadDigits),
            2, QuadDigits)
\* The reference orbit loop from iteration i on.  rr and ri are the entries
\* of refs_r and refs_i stored so far (entry n at position n + 1); the double
\* arrays refs_r_d and refs_i_d hold the casts of the same entries.
RECURSIVE OrbitLoop(_, _, _, _, _, _, _, _, _, _)
OrbitStep(cr, ci, nzr, nzi, i, max_iter, rr, ri) ==
    OrbitLoop(cr, ci, nzr, nzi, FMul(nzr, nzr, QuadDigits),
              FMul(nzi, nzi, QuadDigits), i, max_iter, rr, ri)

OrbitLoop(cr, ci, zr, zi, zr2, zi2, i, max_iter, rr, ri) ==
    IF i >= max_iter THEN [refs_r |-> rr, refs_i |-> ri, ref_iter |-> max_iter]
    ELSE IF FGt(FAdd(zr2, zi2, QuadDigits), FInt(4, QuadDigits), QuadDigits)
         THEN [refs_r |-> Append(rr, zr), refs_i |-> Append(ri, zi), ref_iter |-> i]
    ELSE OrbitStep(cr, ci, FAdd(FSub(zr2, zi2, QuadDigits), cr, QuadDigits),
                   FAdd(FMul(FMul(FInt(2, QuadDigits), zr, QuadDigits), zi,
                             QuadDigits), ci, QuadDigits),
                   i + 1, max_iter, Append(rr, zr), Append(ri, zi))

ReferenceOrbitLate(a) ==
    [OrbitLoop(center_r(a), center_i(a), FZero, FZero, FZero, FZero, 0,
               a.max_iter, <<>>, <<>>)
       EXCEPT !.ref_iter = IF @ < a.max_iter THEN @ + 1 ELSE @]

ReferenceOrbit(a) ==
    OrbitLoop(center_r(a), center_i(a), FZero, FZero, FZero, FZero, 0,
              a.max_iter, <<>>, <<>>)

CastSeq(q) == [n \in 1..Len(q) |-> FCast(q[n], DoubleDigits)]

\* d*d*n*n/4 in quad.
HalfExtentSq(d, n, P) ==
    FDivInt(FMul(FMul(FMul(d, d, P), FInt(n, P), P), FInt(n, P), P), 4, P)

\* max_dc = sqrt((double)(dx*dx*width*width/4 + dy*dy*height*height/4)).
\* It is only defined for width /= 0 and height /= 0: with a zero width or
\* height dx or dy is infinite (or NaN) and the product with 0 is NaN.
MaxDcIsNaN(a) == a.width = 0 \/ a.height = 0
max_dc(a) ==
    FSqrt(FCast(FAdd(HalfExtentSq(dx_q(a), a.width, QuadDigits),
                     HalfExtentSq(dy_q(a), a.height, QuadDigits), QuadDigits),
                DoubleDigits), DoubleDigits)

\* B_mag = sqrt(Br*Br + Bi*Bi) in double.
B_mag(Br, Bi) ==
    FSqrt(FAdd(FMul(Br, Br, DoubleDigits), FMul(Bi, Bi, DoubleDigits),
               DoubleDigits), DoubleDigits)

\* B_mag * max_dc > approx_threshold (false when max_dc is NaN).
ApproxExceeded(a, Br, Bi) ==
    /\ ~MaxDcIsNaN(a)
    /\ FGt(FMul(B_mag(Br, Bi), max_dc(a), DoubleDigits),
           FNorm(1, -12, DoubleDigits), DoubleDigits)

\* B_{n+1} = 2*Z_n*B_n + 1.
NextB(Zr, Zi, B, P) ==
    [r |-> FAdd(FMul(FInt(2, P), FSub(FMul(Zr, B.r, P), FMul(Zi, B.i, P), P), P),
                FInt(1, P), P),
     i |-> FMul(FInt(2, P), FAdd(FMul(Zr, B.i, P), FMul(Zi, B.r, P), P), P)]

\* The linear approximation loop from iteration i on.
RECURSIVE ApproxLoop(_, _, _, _, _, _, _)
ApproxLoop(a, rr, ri, ref_iter, i, B, skip) ==
    IF i >= ref_iter THEN [Br |-> B.r, Bi |-> B.i, skip_iter |-> skip]
    ELSE IF ApproxExceeded(a, B.r, B.i)
         THEN [Br |-> B.r, Bi |-> B.i, skip_iter |-> skip]
    ELSE ApproxLoop(a, rr, ri, ref_iter, i + 1,
                    NextB(FCast(rr[i + 1], DoubleDigits),
                          FCast(ri[i + 1], DoubleDigits), B, DoubleDigits), i)

ClampSkip(la, ref_iter) ==
    [la EXCEPT !.skip_iter = IF @ > ref_iter THEN ref_iter ELSE @]

LinearApproximation(a, rr, ri, ref_iter) ==
    ClampSkip(ApproxLoop(a, rr, ri, ref_iter, 0, [r |-> FZero, i |-> FZero], 0),
              ref_iter)

\* (n - size / 2.0) * step in double.
DeltaC(n, size, step, P) ==
    FMul(FSub(FInt(n, P), FDivInt(FInt(size, P), 2, P), P), step, P)

\* Delta c of pixel column px and of pixel row py, in double.
DeltaCr(a, px) == DeltaC(px, a.width, FCast(dx_q(a), DoubleDigits), DoubleDigits)
DeltaCi(a, py) == DeltaC(py, a.height, FCast(dy_q(a), DoubleDigits), DoubleDigits)

\* delta at the start of a pixel's loop: B * delta_c when skip_iter > 0.
InitDelta(k, dcr, dci) ==
    IF k.skip_iter > 0
    THEN [r |-> FSub(FMul(k.Br, dcr, DoubleDigits), FMul(k.Bi, dci, DoubleDigits),
                     DoubleDigits),
          i |-> FAdd(FMul(k.Br, dci, DoubleDigits), FMul(k.Bi, dcr, DoubleDigits),
                     DoubleDigits)]
    ELSE [r |-> FZero, i |-> FZero]

SumSq(zr, zi, P) == FAdd(FMul(zr, zr, P), FMul(zi, zi, P), P)

\* |X + dz|^2 in double.
Modulus(X, Y, dzr, dzi) ==
    SumSq(FAdd(X, dzr, DoubleDigits), FAdd(Y, dzi, DoubleDigits), DoubleDigits)

\* --- the 4-lane SIMD path.  A lane is [dcr, dzr, dzi, dzr2, dzi2, mask,
\* iter, mod]: its delta c, its delta and the squares of its parts, its bit
\* of vmask, and its elements of viter and vmodulus.
LaneSet(l, next_dzr, next_dzi, P) ==
    [l EXCEPT !.dzr = next_dzr, !.dzi = next_dzi,
              !.dzr2 = FMul(next_dzr, next_dzr, P),
              !.dzi2 = FMul(next_dzi, next_dzi, P)]

LaneFma(l, vtwoX, vtwoY, term_sq_r, term_sq_i, P) ==
    LaneSet(l,
            FAdd(FMul(vtwoX, l.dzr, P), FSub(term_sq_r, FMul(vtwoY, l.dzi, P), P), P),
            FAdd(FMul(vtwoX, l.dzi, P), FAdd(FMul(vtwoY, l.dzr, P), term_sq_i, P), P),
            P)

\* One perturbation step of a lane against the reference entry (X, Y):
\* dz = 2*Z*dz + dz^2 + dc, with the fused multiply-adds of the source.
LaneStep(l, X, Y, dci) ==
    LaneFma(l, FMul(FInt(2, DoubleDigits), X, DoubleDigits),
            FMul(FInt(2, DoubleDigits), Y, DoubleDigits),
            FAdd(FSub(l.dzr2, l.dzi2, DoubleDigits), l.dcr, DoubleDigits),
            FAdd(FMul(FInt(2, DoubleDigits), FMul(l.dzr, l.dzi, DoubleDigits),
                      DoubleDigits), dci, DoubleDigits),
            DoubleDigits)

LaneRecordRearm(l, vmod, newly_escaped, n) ==
    [l EXCEPT !.iter = IF newly_escaped THEN n ELSE @,
              !.mod = IF newly_escaped THEN vmod ELSE @,
              !.mask = ~newly_escaped]

LaneRecord(l, vmod, newly_escaped, n) ==
    [l EXCEPT !.iter = IF newly_escaped THEN n ELSE @,
              !.mod = IF newly_escaped THEN vmod ELSE @,
              !.mask = l.mask /\ ~newly_escaped]

LaneCompare(l, vmod, n) ==
    LaneRecord(l, vmod,
               l.mask /\ FGt(vmod, FInt(4, DoubleDigits), DoubleDigits), n)

\* The escape test of a lane against (X, Y), recording index n when the lane
\* is active and escaped, and clearing its mask bit when it escaped.
LaneCheck(l, X, Y, n) == LaneCompare(l, Modulus(X, Y, l.dzr, l.dzi), n)

\* and_pd of a lane's delta with its mask bit.
LaneZero(l) ==
    IF l.mask THEN l
    ELSE [l EXCEPT !.dzr = FZero, !.dzi = FZero, !.dzr2 = FZero, !.dzi2 = FZero]

AllInactive(v) == \A n \in 1..Len(v) : ~v[n].mask

\* The remainder loop of a SIMD group from iteration i on.
RECURSIVE RemainderLoop(_, _, _, _, _)
RemainderNext(k, c, dci, i, limit) ==
    IF AllInactive(c) THEN c
    ELSE RemainderLoop(k,
             [n \in 1..4 |->
                LaneZero(LaneStep(c[n], k.refs_r_d[i + 1], k.refs_i_d[i + 1], dci))],
             dci, i + 1, limit)

RemainderLoop(k, v, dci, i, limit) ==
    IF i >= limit THEN v
    ELSE RemainderNext(k,
             [n \in 1..4 |->
                LaneCheck(v[n], k.refs_r_d[i + 1], k.refs_i_d[i + 1], i)],
             dci, i, limit)

\* The index of the reference entry the unrolled escape check reads.
CheckIdxUnclamped(i, ref_iter) == i + 4

CheckIdx(i, ref_iter) == IF i + 4 < ref_iter THEN i + 4 ELSE ref_iter - 1

\* The lanes after the step against reference entry n.
StepAll(k, v, dci, n) ==
    [j \in 1..4 |-> LaneStep(v[j], k.refs_r_d[n + 1], k.refs_i_d[n + 1], dci)]

CheckAll(k, v, check_idx, n) ==
    [j \in 1..4 |->
       LaneCheck(v[j], k.refs_r_d[check_idx + 1], k.refs_i_d[check_idx + 1], n)]

\* The main loop of a SIMD group, unrolled by 4, from iteration i on,
\* followed by the remainder loop unless every lane escaped.
RECURSIVE UnrolledLoop(_, _, _, _, _)
UnrolledNext(k, c, dci, i, limit) ==
    IF AllInactive(c) THEN c
    ELSE UnrolledLoop(k, [n \in 1..4 |-> LaneZero(c[n])], dci, i + 4, limit)

UnrolledLoop(k, v, dci, i, limit) ==
    IF i >= limit \/ i + 4 > limit THEN RemainderLoop(k, v, dci, i, limit)
    ELSE UnrolledNext(k,
             CheckAll(k,
                 StepAll(k, StepAll(k, StepAll(k, StepAll(k, v, dci, i),
                                               dci, i + 1), dci, i + 2), dci, i + 3),
                 CheckIdx(i, k.ref_iter), i + 4),
             dci, i, limit)

\* The result extraction of a lane: escaped when its iteration count is
\* below limit.
LaneResult(l, limit, max_iter) ==
    IF l.iter < limit THEN Smooth(l.iter, l.mod) ELSE Sentinel(max_iter)

LaneStart(k, dcr, dz) ==
    [dcr |-> dcr, dzr |-> dz.r, dzi |-> dz.i,
     dzr2 |-> FMul(dz.r, dz.r, DoubleDigits),
     dzi2 |-> FMul(dz.i, dz.i, DoubleDigits),
     mask |-> TRUE, iter |-> k.skip_iter, mod |-> FZero]

LaneInit(k, dcr, dci) == LaneStart(k, dcr, InitDelta(k, dcr, dci))

GroupResults(v, limit, max_iter) ==
    [n \in 1..4 |-> LaneResult(v[n], limit, max_iter)]

\* The lanes of the group starting at px when its loops are left.
GroupLanes(a, k, px, dci) ==
    UnrolledLoop(k, [n \in 1..4 |-> LaneInit(k, DeltaCr(a, px + n - 1), dci)],
                 dci, k.skip_iter, k.ref_iter)

GroupRun(a, k, px, dci) ==
    GroupResults(GroupLanes(a, k, px, dci), k.ref_iter, a.max_iter)

\* The four values the SIMD path stores for pixels px .. px+3 of row py.
\* k holds the kernel's arrays, ref_iter, skip_iter, Br and Bi.
SimdGroup(a, k, px, py) == GroupRun(a, k, px, DeltaCi(a, py))

\* --- the scalar tail.
RECURSIVE TailLoop(_, _, _, _, _, _, _, _)
TailStep(k, dcr, dci, dzr, dzi, two_X, two_Y, i, limit, max_iter, P) ==
    TailLoop(k, dcr, dci,
             FAdd(FSub(FAdd(FSub(FMul(two_X, dzr, P), FMul(two_Y, dzi, P), P),
                            FMul(dzr, dzr, P), P), FMul(dzi, dzi, P), P), dcr, P),
             FAdd(FAdd(FAdd(FMul(two_X, dzi, P), FMul(two_Y, dzr, P), P),
                       FMul(FMul(FInt(2, P), dzr, P), dzi, P), P), dci, P),
             i + 1, limit, max_iter)

TailTest(k, dcr, dci, dzr, dzi, X, Y, modulus, i, limit, max_iter) ==
    IF FGt(modulus, FInt(4, DoubleDigits), DoubleDigits) THEN Smooth(i, modulus)
    ELSE TailStep(k, dcr, dci, dzr, dzi,
                  FMul(FInt(2, DoubleDigits), X, DoubleDigits),
                  FMul(FInt(2, DoubleDigits), Y, DoubleDigits),
                  i, limit, max_iter, DoubleDigits)

TailLoop(k, dcr, dci, dzr, dzi, i, limit, max_iter) ==
    IF i >= limit THEN Sentinel(max_iter)
    ELSE TailTest(k, dcr, dci, dzr, dzi, k.refs_r_d[i + 1], k.refs_i_d[i + 1],
                  Modulus(k.refs_r_d[i + 1], k.refs_i_d[i + 1], dzr, dzi),
                  i, limit, max_iter)

TailStart(a, k, dcr, dci, dz) ==
    TailLoop(k, dcr, dci, dz.r, dz.i, k.skip_iter, k.ref_iter, a.max_iter)

TailInit(a, k, dcr, dci) == TailStart(a, k, dcr, dci, InitDelta(k, dcr, dci))

\* The value the scalar tail stores for pixel (px, py).
TailPixel(a, k, px, py) == TailInit(a, k, DeltaCr(a, px), DeltaCi(a, py))

\* ------------------------------------------------- the frame as a function
\* What the perturbation kernel's pixel loops read, from the reference orbit o
\* and the linear approximation la.
KernelData(o, la) ==
    [refs_r_d |-> CastSeq(o.refs_r), refs_i_d |-> CastSeq(o.refs_i),
     ref_iter |-> o.ref_iter, skip_iter |-> la.skip_iter, Br |-> la.Br, Bi |-> la.Bi]

KernelFrom(a, o) ==
    KernelData(o, LinearApproximation(a, o.refs_r, o.refs_i, o.ref_iter))

KernelOf(a) == KernelFrom(a, ReferenceOrbit(a))

\* The value the perturbation kernel stores for pixel (px, py): a lane of the
\* SIMD group of px when that group fits in the row, the scalar tail otherwise.
PerturbationCell(a, k, px, py) ==
    IF px - (px % 4) <= a.width - 4
    THEN SimdGroup(a, k, px - (px % 4), py)[(px % 4) + 1]
    ELSE TailPixel(a, k, px, py)

\* The cells compute_mandelbrot_str stores when all of its loops have run.
FrameCells(a, kern, k) ==
    [c \in 0 .. (a.width * a.height - 1) |->
       IF kern = "double" THEN DoubleCell(a, c % a.width, c \div a.width)
       ELSE IF kern = "long" THEN LongCell(a, c % a.width, c \div a.width)
       ELSE PerturbationCell(a, k, c % a.width, c \div a.width)]

FrameKernel(a, kern) ==
    FrameCells(a, kern, IF kern = "perturbation" THEN KernelOf(a) ELSE <<>>)

FrameOf(a) == FrameKernel(a, Dispatch(a.xmin_str, a.xmax_str))

\* Whether strtoflt128 converts anything of s: a digit is read before or
\* after the point.
DigitsRead(s, ip) ==
    ip.n + (IF ip.i <= Len(s) /\ s[ip.i] = "." THEN ScanDigits(s, ip.i + 1, 0, 0).n
            ELSE 0)
ConvertsAt(s, i) ==
    DigitsRead(s, ScanDigits(s, IF IsSign(s, i) THEN i + 1 ELSE i, 0, 0)) > 0
Converts(s) == ConvertsAt(s, SkipSpace(s, 1))

\* ------------------------------------------------------------ frame requests
\* The views <<xmin, xmax, ymin, ymax>> a call is made with, each string a
\* sequence of characters.
Views ==
    { << <<"-", "2", ".", "0">>, <<"1", ".", "0">>,
         <<"-", "1", ".", "0">>, <<"1", ".", "0">> >>,          \* shallow view
      << <<"-", "4">>, <<"4">>, <<"-", "4">>, <<"4">> >>,       \* wide view
      << <<"0">>, <<"1", "e", "-", "1", "5">>,
         <<"-", "2", ".", "0">>, <<"2">> >>,                    \* w = 1e-15
      << <<"0">>, <<"1", "e", "-", "1", "3">>,
         <<"0">>, <<"1", "e", "-", "1", "3">> >>,               \* w = 1e-13 exactly
      << <<"0">>, <<"1", "e", "-", "1", "7">>,
         <<"0">>, <<"1", "e", "-", "1", "7">> >>,               \* w = 1e-17 exactly
      << <<"0">>, <<"1", "e", "-", "1", "8">>,
         <<"-", "2", ".", "0">>, <<"2">> >>,                    \* w = 1e-18, tall
      << <<"0">>, <<"5", "e", "-", "1", "8">>,
         <<"0">>, <<"2", ".", "4">> >>,                         \* w = 5e-18
      << <<"0">>, <<"1", "e", "-", "1", "8">>,
         <<"-", "1", ".", "2">>, <<"3", ".", "5">> >>,          \* centre 1.15i
      << <<"1", ".", "0">>, <<"-", "2", ".", "0">>,
         <<"-", "1", ".", "0">>, <<"1", ".", "0">> >>,          \* xmax < xmin
      << <<"a", "b", "c">>, <<"1", ".", "0">>,
         <<"-", "1", ".", "0">>, <<"1", ".", "0">> >>,          \* xmin is no number
      << <<"-", "2", ".", "0">>, <<"1", ".", "0">>,
         <<"1", ".", "0">>, <<"-", "1", ".", "0">> >> }         \* ymax < ymin

NoArgs ==
    [xmin_str |-> <<>>, xmax_str |-> <<>>, ymin_str |-> <<>>, ymax_str |-> <<>>,
     width |-> 0, height |-> 0, max_iter |-> 0]

Threads == 1..MaxWorkers
Arrays == {"refs_r", "refs_i", "refs_r_d", "refs_i_d"}

\* ---------------------------------------------------------------- the state
VARIABLES
    pc,         \* where the caller is: "idle", inside compute_mandelbrot_str
                \* ("alloc_q", "alloc_d", "orbit", "approx", "parallel",
                \* "free"), or "returned"
    args,       \* the arguments of the current call
    nthreads,   \* threads of the OpenMP team of this call
    kernel,     \* the branch taken: "none", "double", "long", "perturbation"
    out,        \* the caller's output buffer, cells 0 .. width*height-1
    nwrites,    \* number of stores to each cell during this call
    next,       \* first loop iteration not yet handed to a thread
    wk,         \* per thread: its chunk [lo, hi) and the px it is at
    heap,       \* per reference array: "null", "live", "freed", "freed_twice"
    refs_r, refs_i, refs_r_d, refs_i_d,   \* the entries stored so far
    ref_iter, skip_iter, Br, Bi,          \* locals of the perturbation kernel
    mode        \* the result of the last get_precision_mode, -1 when none

vars == <<pc, args, nthreads, kernel, out, nwrites, next, wk, heap,
          refs_r, refs_i, refs_r_d, refs_i_d, ref_iter, skip_iter, Br, Bi, mode>>

kernelVars == <<refs_r, refs_i, refs_r_d, refs_i_d, ref_iter, skip_iter, Br, Bi>>

Idle == [lo |-> 0, hi |-> 0, px |-> 0]

\* What the perturbation kernel's pixel loops read.
K == [refs_r_d |-> refs_r_d, refs_i_d |-> refs_i_d, ref_iter |-> ref_iter,
      skip_iter |-> skip_iter, Br |-> Br, Bi |-> Bi]

Cells(a) == 0 .. (a.width * a.height - 1)

\* Iterations of the parallel loop: rows in the perturbation kernel, (py, px)
\* pairs in the collapsed loops of the scalar branches.
Total ==
    IF args.height <= 0 THEN 0
    ELSE IF kernel = "perturbation" THEN args.height
    ELSE IF args.width <= 0 THEN 0
    ELSE args.height * args.width

Init ==
    /\ pc = "idle"
    /\ args = NoArgs
    /\ nthreads = 1
    /\ kernel = "none"
    /\ out = <<>>
    /\ nwrites = <<>>
    /\ next = 0
    /\ wk = [t \in Threads |-> Idle]
    /\ heap = [x \in Arrays |-> "null"]
    /\ refs_r = <<>> /\ refs_i = <<>> /\ refs_r_d = <<>> /\ refs_i_d = <<>>
    /\ ref_iter = 0 /\ skip_iter = 0 /\ Br = FZero /\ Bi = FZero
    /\ mode = -1

\* Entry of compute_mandelbrot_str: the strings are parsed, w is formed and
\* the branch is chosen.  The scalar branches go straight to their parallel
\* loop; the perturbation branch calls compute_mandelbrot_perturbation.
compute_mandelbrot_str(v, w, h, m, n) ==
    /\ pc = "idle"
    /\ args' = [xmin_str |-> v[1], xmax_str |-> v[2], ymin_str |-> v[3],
                ymax_str |-> v[4], width |-> w, height |-> h, max_iter |-> m]
    /\ nthreads' = n
    /\ kernel' = Dispatch(v[1], v[2])
    /\ pc' = IF kernel' = "perturbation" THEN "alloc_q" ELSE "parallel"
    /\ out' = [c \in 0 .. (w * h - 1) |-> Unwritten]
    /\ nwrites' = [c \in 0 .. (w * h - 1) |-> 0]
    /\ next' = 0
    /\ wk' = [t \in Threads |-> Idle]
    /\ heap' = [x \in Arrays |-> "null"]
    /\ refs_r' = <<>> /\ refs_i' = <<>> /\ refs_r_d' = <<>> /\ refs_i_d' = <<>>
    /\ ref_iter' = 0 /\ skip_iter' = 0 /\ Br' = FZero /\ Bi' = FZero
    /\ mode' = -1

\* _mm_malloc: a pointer to a fresh block, or NULL.
mm_malloc(ok) == IF ok THEN "live" ELSE "null"

\* _mm_free of a block: a live block is released; releasing a block that was
\* already released is recorded as "freed_twice".
mm_free(s) ==
    IF s = "live" THEN "freed"
    ELSE IF s = "null" THEN "null"
    ELSE "freed_twice"

\* if (p) _mm_free(p);
GuardedFree(s) == IF s # "null" THEN mm_free(s) ELSE s

\* The early return after the first pair of allocations.
AllocQuadFailed(h) ==
    [h EXCEPT !["refs_r"] = GuardedFree(@), !["refs_i"] = GuardedFree(@)]

AllocDoubleFailedLeak(h) ==
    [h EXCEPT !["refs_r_d"] = GuardedFree(@), !["refs_i_d"] = GuardedFree(@)]

\* The early return after the second pair of allocations.
AllocDoubleFailed(h) ==
    [h EXCEPT !["refs_r"] = mm_free(@), !["refs_i"] = mm_free(@),
              !["refs_r_d"] = GuardedFree(@), !["refs_i_d"] = GuardedFree(@)]

\* The four _mm_free calls at the end of the kernel.
FreeAll(h) == [x \in Arrays |-> mm_free(h[x])]

\* _mm_malloc of refs_r and refs_i; either may fail.  On failure whatever was
\* obtained is freed and the kernel returns.
AllocQuad(okr, oki) ==
    /\ pc = "alloc_q"
    /\ IF okr /\ oki
       THEN /\ heap' = [heap EXCEPT !["refs_r"] = mm_malloc(okr),
                                    !["refs_i"] = mm_malloc(oki)]
            /\ pc' = "alloc_d"
       ELSE /\ heap' = AllocQuadFailed([heap EXCEPT !["refs_r"] = mm_malloc(okr),
                                                    !["refs_i"] = mm_malloc(oki)])
            /\ pc' = "returned"
    /\ UNCHANGED <<args, nthreads, kernel, out, nwrites, next, wk, kernelVars, mode>>

\* _mm_malloc of refs_r_d and refs_i_d; either may fail.
AllocDouble(okr, oki) ==
    /\ pc = "alloc_d"
    /\ IF okr /\ oki
       THEN /\ heap' = [heap EXCEPT !["refs_r_d"] = mm_malloc(okr),
                                    !["refs_i_d"] = mm_malloc(oki)]
            /\ pc' = "orbit"
       ELSE /\ heap' = AllocDoubleFailed([heap EXCEPT !["refs_r_d"] = mm_malloc(okr),
                                                      !["refs_i_d"] = mm_malloc(oki)])
            /\ pc' = "returned"
    /\ UNCHANGED <<args, nthreads, kernel, out, nwrites, next, wk, kernelVars, mode>>

\* The reference orbit loop, storing into the four arrays.
StoreReference(o) ==
    /\ refs_r' = o.refs_r
    /\ refs_i' = o.refs_i
    /\ refs_r_d' = CastSeq(o.refs_r)
    /\ refs_i_d' = CastSeq(o.refs_i)
    /\ ref_iter' = o.ref_iter

BuildReference ==
    /\ pc = "orbit"
    /\ StoreReference(ReferenceOrbit(args))
    /\ pc' = "approx"
    /\ UNCHANGED <<args, nthreads, kernel, out, nwrites, next, wk, heap,
                   skip_iter, Br, Bi, mode>>

\* The linear approximation loop; the parallel region opens after it.
StoreApproximation(la) ==
    /\ skip_iter' = la.skip_iter
    /\ Br' = la.Br
    /\ Bi' = la.Bi

BuildApproximation ==
    /\ pc = "approx"
    /\ StoreApproximation(LinearApproximation(args, refs_r, refs_i, ref_iter))
    /\ pc' = "parallel"
    /\ UNCHANGED <<args, nthreads, kernel, out, nwrites, next, wk, heap,
                   refs_r, refs_i, refs_r_d, refs_i_d, ref_iter, mode>>

\* schedule(guided): an idle thread is handed the next chunk of consecutive
\* iterations, of a size between 1 and its share of what is left.
ChunkSizes(left, n) == {1, (left + n - 1) \div n}

GrabStale(t, size) ==
    /\ pc = "parallel"
    /\ t <= nthreads
    /\ wk[t].lo >= wk[t].hi
    /\ next < Total
    /\ size \in ChunkSizes(Total - next, nthreads)
    /\ wk' = [wk EXCEPT ![t] = [lo |-> next, hi |-> next + size, px |-> 0]]
    /\ next' = IF size > 1 THEN next + size - 1 ELSE next + size
    /\ UNCHANGED <<pc, args, nthreads, kernel, out, nwrites, heap, kernelVars, mode>>

Grab(t, size) ==
    /\ pc = "parallel"
    /\ t <= nthreads
    /\ wk[t].lo >= wk[t].hi
    /\ next < Total
    /\ size \in ChunkSizes(Total - next, nthreads)
    /\ wk' = [wk EXCEPT ![t] = [lo |-> next, hi |-> next + size, px |-> 0]]
    /\ next' = next + size
    /\ UNCHANGED <<pc, args, nthreads, kernel, out, nwrites, heap, kernelVars, mode>>

StoreOverlap(o, n, c, val) ==
    /\ out' = [x \in DOMAIN o |-> IF x = c \/ x = c + 1 THEN val ELSE o[x]]
    /\ nwrites' = [n EXCEPT ![c] = @ + 1]

\* The store output[c] = val.
Store(o, n, c, val) ==
    /\ out' = [o EXCEPT ![c] = val]
    /\ nwrites' = [n EXCEPT ![c] = @ + 1]

\* The cell index of pixel (px, py).
CellIndex(a, px, py) == py * a.width + px

\* The value a scalar branch stores for pixel (px, py).
ScalarCell(a, kern, px, py) ==
    IF kern = "double" THEN DoubleCell(a, px, py) ELSE LongCell(a, px, py)

\* One iteration of a collapsed scalar loop: pixel (px, py) is computed and
\* stored.
ExecScalar(t) ==
    /\ pc = "parallel"
    /\ kernel \in {"double", "long"}
    /\ wk[t].lo < wk[t].hi
    /\ Store(out, nwrites, wk[t].lo,
             ScalarCell(args, kernel, wk[t].lo % args.width, wk[t].lo \div args.width))
    /\ wk' = [wk EXCEPT ![t].lo = @ + 1]
    /\ UNCHANGED <<pc, args, nthreads, kernel, next, heap, kernelVars, mode>>

\* The thread's position after the pixels up to npx of its row are done.
AdvanceNoTail(w, npx, width) ==
    IF npx > width - 4 THEN [w EXCEPT !.lo = @ + 1, !.px = 0]
    ELSE [w EXCEPT !.px = npx]

Advance(w, npx, width) ==
    IF npx >= width THEN [w EXCEPT !.lo = @ + 1, !.px = 0]
    ELSE [w EXCEPT !.px = npx]

StoreGroupWide(base, r) ==
    /\ out' = [c \in DOMAIN out |->
                 IF c \in base .. base + 4 THEN r[((c - base) % 4) + 1] ELSE out[c]]
    /\ nwrites' = [c \in DOMAIN nwrites |->
                     IF c \in base .. base + 4 THEN nwrites[c] + 1 ELSE nwrites[c]]

\* The four stores of a SIMD group at cells base .. base+3.
StoreGroup(base, r) ==
    /\ out' = [c \in DOMAIN out |->
                 IF c \in base .. base + 3 THEN r[c - base + 1] ELSE out[c]]
    /\ nwrites' = [c \in DOMAIN nwrites |->
                     IF c \in base .. base + 3 THEN nwrites[c] + 1 ELSE nwrites[c]]

\* One SIMD group of a row of the perturbation kernel: 4 pixels are computed
\* and stored.
ExecGroup(t) ==
    /\ pc = "parallel"
    /\ kernel = "perturbation"
    /\ wk[t].lo < wk[t].hi
    /\ wk[t].px <= args.width - 4
    /\ StoreGroup(CellIndex(args, wk[t].px, wk[t].lo),
                  SimdGroup(args, K, wk[t].px, wk[t].lo))
    /\ wk' = [wk EXCEPT ![t] = Advance(@, @.px + 4, args.width)]
    /\ UNCHANGED <<pc, args, nthreads, kernel, next, heap, kernelVars, mode>>

\* One pixel of the scalar tail of a row.
ExecTail(t) ==
    /\ pc = "parallel"
    /\ kernel = "perturbation"
    /\ wk[t].lo < wk[t].hi
    /\ wk[t].px > args.width - 4
    /\ wk[t].px < args.width
    /\ Store(out, nwrites, CellIndex(args, wk[t].px, wk[t].lo),
             TailPixel(args, K, wk[t].px, wk[t].lo))
    /\ wk' = [wk EXCEPT ![t] = Advance(@, @.px + 1, args.width)]
    /\ UNCHANGED <<pc, args, nthreads, kernel, next, heap, kernelVars, mode>>

\* A row without pixels (width <= 0): neither loop body runs.
ExecEmptyRow(t) ==
    /\ pc = "parallel"
    /\ kernel = "perturbation"
    /\ wk[t].lo < wk[t].hi
    /\ args.width <= 0
    /\ wk' = [wk EXCEPT ![t].lo = @ + 1]
    /\ UNCHANGED <<pc, args, nthreads, kernel, out, nwrites, next, heap,
                   kernelVars, mode>>

\* The implicit barrier at the end of the parallel loop: every iteration has
\* been handed out and executed.
JoinEarly ==
    /\ pc = "parallel"
    /\ next >= Total
    /\ pc' = IF kernel = "perturbation" THEN "free" ELSE "returned"
    /\ UNCHANGED <<args, nthreads, kernel, out, nwrites, next, wk, heap,
                   kernelVars, mode>>

Join ==
    /\ pc = "parallel"
    /\ next >= Total
    /\ \A t \in Threads : wk[t].lo >= wk[t].hi
    /\ pc' = IF kernel = "perturbation" THEN "free" ELSE "returned"
    /\ UNCHANGED <<args, nthreads, kernel, out, nwrites, next, wk, heap,
                   kernelVars, mode>>

\* The four _mm_free calls at the end of the perturbation kernel.
Free ==
    /\ pc = "free"
    /\ heap' = FreeAll(heap)
    /\ pc' = "returned"
    /\ UNCHANGED <<args, nthreads, kernel, out, nwrites, next, wk, kernelVars, mode>>

\* The caller asks get_precision_mode about the view it has just rendered.
QueryMode ==
    /\ pc = "returned"
    /\ mode = -1
    /\ mode' = get_precision_mode(args.xmin_str, args.xmax_str, args.width)
    /\ UNCHANGED <<pc, args, nthreads, kernel, out, nwrites, next, wk, heap, kernelVars>>

\* The caller is done with the frame; nothing of the call is kept.
Return ==
    /\ pc = "returned"
    /\ pc' = "idle"
    /\ args' = NoArgs
    /\ nthreads' = 1
    /\ kernel' = "none"
    /\ out' = <<>>
    /\ nwrites' = <<>>
    /\ next' = 0
    /\ wk' = [t \in Threads |-> Idle]
    /\ heap' = [x \in Arrays |-> "null"]
    /\ refs_r' = <<>> /\ refs_i' = <<>> /\ refs_r_d' = <<>> /\ refs_i_d' = <<>>
    /\ ref_iter' = 0 /\ skip_iter' = 0 /\ Br' = FZero /\ Bi' = FZero
    /\ mode' = -1

Next ==
    \/ \E v \in Views, w \in 0..MaxWidth, h \in 0..MaxHeight, m \in 0..MaxIter,
          n \in Threads : compute_mandelbrot_str(v, w, h, m, n)
    \/ \E okr, oki \in BOOLEAN : AllocQuad(okr, oki)
    \/ \E okr, oki \in BOOLEAN : AllocDouble(okr, oki)
    \/ BuildReference
    \/ BuildApproximation
    \/ \E t \in Threads, size \in 1..(MaxWidth * MaxHeight) : Grab(t, size)
    \/ \E t \in Threads : ExecScalar(t)
    \/ \E t \in Threads : ExecGroup(t)
    \/ \E t \in Threads : ExecTail(t)
    \/ \E t \in Threads : ExecEmptyRow(t)
    \/ Join
    \/ Free
    \/ QueryMode
    \/ Return

Spec == Init /\ [][Next]_vars

\* The steps of a call that compute: the two setup loops and the steps of the
\* threads of the parallel loop.
ComputeStep ==
    \/ BuildReference
    \/ BuildApproximation
    \/ \E t \in Threads, size \in 1..(MaxWidth * MaxHeight) : Grab(t, size)
    \/ \E t \in Threads : ExecScalar(t)
    \/ \E t \in Threads : ExecGroup(t)
    \/ \E t \in Threads : ExecTail(t)
    \/ \E t \in Threads : ExecEmptyRow(t)

\* The states in which a computing step can be taken: a setup loop is due, or
\* the parallel loop has an iteration that is not finished (a thread holds
\* one, or one is left to hand out).
Computing ==
    \/ pc \in {"orbit", "approx"}
    \/ /\ pc = "parallel"
       /\ next < Total \/ \E t \in Threads : wk[t].lo < wk[t].hi

\* The other steps inside a call: the allocator answers, the team is joined,
\* the arrays are freed.
Finish ==
    \/ \E okr, oki \in BOOLEAN : AllocQuad(okr, oki)
    \/ \E okr, oki \in BOOLEAN : AllocDouble(okr, oki)
    \/ Join
    \/ Free

\* Weak fairness of the steps inside a call: the threads of the team keep
\* running and the allocator answers; the caller need not call again.  For
\* ComputeStep weak fairness is written out, with Computing for
\* ENABLED <<ComputeStep>>_vars.
Fairness ==
    /\ WF_vars(Finish)
    /\ []<>(~Computing) \/ []<><<ComputeStep>>_vars

\* Calls with width, height and max_iter of at least 1, followed to their
\* return.
FairNext ==
    \/ \E v \in Views, w \in 1..MaxWidth, h \in 1..MaxHeight, m \in 1..MaxIter,
          n \in Threads : compute_mandelbrot_str(v, w, h, m, n)
    \/ \E okr, oki \in BOOLEAN : AllocQuad(okr, oki)
    \/ \E okr, oki \in BOOLEAN : AllocDouble(okr, oki)
    \/ BuildReference
    \/ BuildApproximation
    \/ \E t \in Threads, size \in 1..(MaxWidth * MaxHeight) : Grab(t, size)
    \/ \E t \in Threads : ExecScalar(t)
    \/ \E t \in Threads : ExecGroup(t)
    \/ \E t \in Threads : ExecTail(t)
    \/ Join
    \/ Free
    \/ Return

FairSpec == Init /\ [][FairNext]_vars /\ Fairness

\* ------------------------------------------------------------- properties
\* The call has returned after all of its loops ran (no allocation failed).
Completed ==
    /\ pc = "returned"
    /\ kernel = "perturbation" => \A x \in Arrays : heap[x] = "freed"

InvalidSize(a) == a.width <= 0 \/ a.height <= 0 \/ a.max_iter <= 0

InvalidRegion(a) ==
    \/ \E s \in {a.xmin_str, a.xmax_str, a.ymin_str, a.ymax_str} : ~Converts(s)
    \/ ~FGt(STRTOREAL128(a.xmax_str), STRTOREAL128(a.xmin_str), QuadDigits)
    \/ ~FGt(STRTOREAL128(a.ymax_str), STRTOREAL128(a.ymin_str), QuadDigits)

ValidRequest(a) == ~InvalidSize(a) /\ ~InvalidRegion(a)

AllWritten == \A c \in Cells(args) : c \in DOMAIN out /\ out[c] # Unwritten

\* C1: during and after a call the kernel in use is the one the width
\* w = xmax - xmin selects: double when w > 1e-13, extended when
\* 1e-17 < w <= 1e-13, perturbation when w <= 1e-17; the reference arrays of
\* the perturbation kernel exist only when that kernel was selected.
C1_KernelChosenByWidth ==
    pc # "idle" =>
      /\ kernel =
           IF FGt(ViewWidth(args.xmin_str, args.xmax_str), FNorm(1, -13, QuadDigits),
                  QuadDigits)
           THEN "double"
           ELSE IF FGt(ViewWidth(args.xmin_str, args.xmax_str),
                       FNorm(1, -17, QuadDigits), QuadDigits)
                THEN "long"
                ELSE "perturbation"
      /\ (\E x \in Arrays : heap[x] # "null") => kernel = "perturbation"

\* A frame of width exactly 1e-13 was rendered by the extended kernel.
C1_Witness ==
    /\ pc = "returned"
    /\ kernel = "long"
    /\ args.xmin_str = <<"0">> /\ args.xmax_str = <<"1", "e", "-", "1", "3">>
    /\ Cells(args) # {}
    /\ \A c \in Cells(args) : nwrites[c] = 1

\* C2: whenever get_precision_mode is asked about the view just rendered, it
\* answers 0 exactly when the double kernel ran, 1 exactly when the extended
\* kernel ran, 3 exactly when the perturbation kernel ran, and never 2.
C2_ModeMatchesKernel ==
    mode # -1 =>
      /\ mode = 0 <=> kernel = "double"
      /\ mode = 1 <=> kernel = "long"
      /\ mode = 3 <=> kernel = "perturbation"
      /\ mode # 2

\* C3: in a valid frame of the perturbation kernel, a written cell of a SIMD
\* group holds -max_iter exactly when its lane never escaped (its mask bit is
\* still set when the loops are left), and a written cell of the scalar tail
\* holds -max_iter unless its escape test fired.
C3_NonEscapedIsSentinel ==
    (kernel = "perturbation" /\ pc \in {"parallel", "free", "returned"}
       /\ ValidRequest(args)) =>
      \A c \in DOMAIN out :
         nwrites[c] > 0 =>
           IF (c % args.width) - ((c % args.width) % 4) <= args.width - 4
           THEN GroupLanes(args, K, (c % args.width) - ((c % args.width) % 4),
                           DeltaCi(args, c \div args.width))[((c % args.width) % 4) + 1].mask
                  <=> out[c] = Sentinel(args.max_iter)
           ELSE \/ out[c] = Sentinel(args.max_iter)
                \/ /\ out[c].kind = "smooth"
                   /\ FGt(out[c].mod, FInt(4, DoubleDigits), DoubleDigits)

\* C4: after a completed call on a valid request every cell is either a
\* strictly positive smooth value or exactly -max_iter.
C4_PositiveOrSentinel ==
    (Completed /\ ValidRequest(args)) =>
      \A c \in Cells(args) :
         \/ out[c] = Sentinel(args.max_iter)
         \/ out[c].kind = "smooth" /\ CellClass(out[c]) = "pos"

\* C5: a cell that holds a positive smooth value after a completed call on a
\* valid request holds a smooth value with the same escape index when the
\* same view is computed with any larger iteration cap.
C5_SameIndexUnderLargerCap ==
    (Completed /\ ValidRequest(args)) =>
      \A c \in Cells(args), m2 \in 1..MaxIter :
         (m2 > args.max_iter /\ out[c].kind = "smooth" /\ CellClass(out[c]) = "pos") =>
            /\ FrameOf([args EXCEPT !.max_iter = m2])[c].kind = "smooth"
            /\ FrameOf([args EXCEPT !.max_iter = m2])[c].iter = out[c].iter

\* C6: after a completed call the output buffer is a function of the call's
\* arguments alone: it does not depend on the number of threads, on how the
\* iterations were handed out and interleaved, or on earlier calls.
C6_OutputIsFunctionOfInputs == Completed => out = FrameOf(args)

\* Two threads completed a frame of several cells with an escaped pixel.
C6_Witness ==
    /\ Completed
    /\ nthreads = 2
    /\ args.width * args.height >= 4
    /\ \E c \in Cells(args) : out[c].kind = "smooth"
    /\ \E c \in Cells(args) : out[c].kind = "sentinel"

\* C7: no cell is stored more than once during a call, and the chunks of
\* iterations two threads hold never overlap.
C7_SingleWriter ==
    /\ \A c \in DOMAIN nwrites : nwrites[c] <= 1
    /\ \A t1, t2 \in Threads :
          (t1 # t2 /\ wk[t1].lo < wk[t1].hi /\ wk[t2].lo < wk[t2].hi) =>
             (wk[t1].hi <= wk[t2].lo \/ wk[t2].hi <= wk[t1].lo)

\* Two threads are inside rows of a perturbation frame of width 5, one of
\* them past the SIMD group of its row.
C7_Witness ==
    /\ pc = "parallel"
    /\ kernel = "perturbation"
    /\ args.width = 5
    /\ wk[1].lo < wk[1].hi /\ wk[2].lo < wk[2].hi
    /\ wk[1].px = 4
    /\ \E c \in DOMAIN nwrites : nwrites[c] = 1

\* C8: a call with width, height and max_iter of at least 1 eventually
\* returns, and when it returns after all allocations succeeded every cell
\* has been written, each exactly once.
C8_ReturnsWithAllCellsWritten ==
    /\ (pc # "idle" /\ ~InvalidSize(args)) ~> (pc = "returned")
    /\ []((Completed /\ ~InvalidSize(args)) =>
            (AllWritten /\ \A c \in Cells(args) : nwrites[c] = 1))

\* The perturbation kernel completed a frame of width 5: a SIMD group and a
\* tail pixel in each row.
C8_Witness ==
    /\ Completed
    /\ kernel = "perturbation"
    /\ args.width = 5 /\ args.height = 2 /\ args.max_iter >= 1
    /\ AllWritten

\* C9: a call with width, height and max_iter of at least 1 whose coordinate
\* strings do not parse or span an empty or inverted rectangle writes no cell.
C9_InvalidRegionWritesNothing ==
    (pc # "idle" /\ InvalidRegion(args) /\ ~InvalidSize(args)) =>
      \A c \in DOMAIN nwrites : nwrites[c] = 0

\* C10: a call on a parsed, non-empty rectangle with width, height or
\* max_iter <= 0 allocates nothing and writes no cell.
C10_InvalidSizeDoesNothing ==
    (pc # "idle" /\ InvalidSize(args) /\ ~InvalidRegion(args)) =>
      /\ \A x \in Arrays : heap[x] = "null"
      /\ \A c \in DOMAIN nwrites : nwrites[c] = 0

\* What compute_mandelbrot_str hands back to its caller: the function is
\* declared void and sets no status anywhere.
ReturnValue == "void"

\* The perturbation kernel returned early because an allocation failed.
AllocationFailed ==
    /\ pc = "returned"
    /\ kernel = "perturbation"
    /\ \E x \in Arrays : heap[x] = "null"

\* C11: when the allocation of any of the four reference arrays fails, the
\* call hands an OutOfMemory failure back to its caller.
C11_AllocationFailureReported ==
    AllocationFailed => ReturnValue = "OutOfMemory"

\* C12: no reference array is released twice, and when the perturbation kernel
\* has returned, by its end or by either early return, every array that was
\* obtained has been released and none is still allocated.
C12_ArraysReleasedOnce ==
    /\ \A x \in Arrays : heap[x] # "freed_twice"
    /\ pc \in {"returned", "idle"} => \A x \in Arrays : heap[x] \in {"null", "freed"}
    /\ heap["refs_r_d"] = "live" => heap["refs_r"] = "live" /\ heap["refs_i"] = "live"

\* The second pair of allocations failed in part: refs_r_d was obtained,
\* refs_i_d was not, and the kernel has returned.
C12_Witness ==
    /\ pc = "returned"
    /\ heap = [x \in Arrays |-> IF x = "refs_i_d" THEN "null" ELSE "freed"]

\* The period-2 bulb predicate (cr + 1)^2 + ci^2 < 1/16, evaluated in double.
BulbTest(a, ci, P) ==
    FLt(FAdd(FMul(a, a, P), FMul(ci, ci, P), P), FNorm(625, -4, P), P)

InBulb(cr, ci) == BulbTest(FAdd(cr, FInt(1, DoubleDigits), DoubleDigits), ci, DoubleDigits)

Interior(c) == InCardioid(c[1], c[2]) \/ InBulb(c[1], c[2])

\* The point c of pixel (px, py) as the kernel kern forms it, as a double:
\* xmin + dx * px in the scalar branches, centre + delta c in the perturbation
\* kernel.
PixelC(a, kern, px, py) ==
    IF kern = "double"
    THEN <<PixelCoord(FCast(STRTOREAL128(a.xmin_str), DoubleDigits),
                      FCast(dx_q(a), DoubleDigits), px, DoubleDigits),
           PixelCoord(FCast(STRTOREAL128(a.ymin_str), DoubleDigits),
                      FCast(dy_q(a), DoubleDigits), py, DoubleDigits)>>
    ELSE IF kern = "long"
    THEN <<FCast(PixelCoord(FCast(STRTOREAL128(a.xmin_str), LongDigits),
                            FCast(dx_q(a), LongDigits), px, LongDigits), DoubleDigits),
           FCast(PixelCoord(FCast(STRTOREAL128(a.ymin_str), LongDigits),
                            FCast(dy_q(a), LongDigits), py, LongDigits), DoubleDigits)>>
    ELSE <<FCast(FAdd(center_r(a), DeltaCr(a, px), QuadDigits), DoubleDigits),
           FCast(FAdd(center_i(a), DeltaCi(a, py), QuadDigits), DoubleDigits)>>

\* C13: in a valid frame of any kernel (double, extended, perturbation), every
\* written cell whose point c satisfies the cardioid predicate or the
\* period-2 bulb predicate holds -max_iter.
C13_InteriorIsSentinel ==
    (pc # "idle" /\ ValidRequest(args)) =>
      \A c \in Cells(args) :
        (out[c] # Unwritten
           /\ Interior(PixelC(args, kernel, c % args.width, c \div args.width)))
          => out[c] = Sentinel(args.max_iter)

\* The view is symmetric about the real axis: ymin = -ymax.
SymmetricView(a) == STRTOREAL128(a.ymin_str) = FNeg(STRTOREAL128(a.ymax_str))

\* The cell of the same column in the mirrored row height - 1 - py.
MirrorCell(a, c) == CellIndex(a, c % a.width, a.height - 1 - (c \div a.width))

\* C14: in a completed valid frame of a view with ymin = -ymax, every cell
\* equals the cell of the same column in row height - 1 - py.
C14_RowsMirror ==
    (Completed /\ ValidRequest(args) /\ SymmetricView(args)) =>
      \A c \in Cells(args) : out[c] = out[MirrorCell(args, c)]

\* Scenario S1: the shallow view rendered 4 x 4 with 256 iterations.
S1 ==
    [xmin_str |-> <<"-", "2", ".", "0">>, xmax_str |-> <<"1", ".", "0">>,
     ymin_str |-> <<"-", "1", ".", "0">>, ymax_str |-> <<"1", ".", "0">>,
     width |-> 4, height |-> 4, max_iter |-> 256]

\* A completed frame of the view of S1, 4 pixels wide and 2 high, with room
\* for 5 iterations: its pixel (0,0) is the pixel (0,0) of S1 and its pixel
\* (2,1) is at the point of pixel (2,2) of S1.
S1View ==
    /\ Completed
    /\ <<args.xmin_str, args.xmax_str, args.ymin_str, args.ymax_str>>
         = <<S1.xmin_str, S1.xmax_str, S1.ymin_str, S1.ymax_str>>
    /\ args.width = 4 /\ args.height = 2 /\ args.max_iter >= 5

\* C15 as stated: in S1 pixel (0,0), c = -2-1i, escapes at iteration 1 under
\* the 256-radius test and its cell is positive; pixel (2,2), c = -0.5+0i, is
\* written -256.
C15_S1EscapesAtOne ==
    S1View =>
      /\ out[0] = DoubleCell(S1, 0, 0)
      /\ out[0].kind = "smooth" /\ out[0].iter = 1
      /\ CellClass(out[0]) = "pos"
      /\ DoubleCell(S1, 2, 2) = Sentinel(256)

\* C15: in S1 pixel (0,0), c = -2-1i, escapes at iteration 4 under the
\* 256-radius test (|z_4|^2 = 15530) and its cell is positive; pixel (2,2),
\* c = -0.5+0i, is inside the cardioid and is written -max_iter = -256.
C15_S1EscapesAtFour ==
    S1View =>
      /\ out[0] = DoubleCell(S1, 0, 0)
      /\ out[0].kind = "smooth" /\ out[0].iter = 4
      /\ FGt(out[0].mod, FInt(256, DoubleDigits), DoubleDigits)
      /\ CellClass(out[0]) = "pos"
      /\ PixelC(args, "double", 2, 1) = PixelC(S1, "double", 2, 2)
      /\ PixelC(S1, "double", 2, 2) = <<FNorm(-5, -1, DoubleDigits), FZero>>
      /\ out[CellIndex(args, 2, 1)] = Sentinel(args.max_iter)
      /\ DoubleCell(S1, 2, 2) = Sentinel(256)

C15_Witness ==
    /\ S1View
    /\ kernel = "double"
    /\ args.max_iter = 5
    /\ \A c \in Cells(args) : nwrites[c] = 1

\* The coefficients of the linear approximation as the recurrence defines
\* them: B_0 = 0, B_{n+1} = 2 * X_n * B_n + 1, over the reference orbit held
\* in rd and id (X_n at position n + 1), in double.
RECURSIVE BSeries(_, _, _)
BSeries(rd, id, n) ==
    IF n <= 0 THEN [r |-> FZero, i |-> FZero]
    ELSE NextB(rd[n], id[n], BSeries(rd, id, n - 1), DoubleDigits)

\* The linear approximation loop of a valid frame has run.
Approximated ==
    /\ kernel = "perturbation"
    /\ pc \in {"parallel", "free"} \/ Completed
    /\ ValidRequest(args)

\* C16: when the pixel loops start at skip_iter > 0, the coefficient B they
\* multiply delta c by is B_skip_iter.
C16_BIsBSkip ==
    (Approximated /\ skip_iter > 0) =>
      [r |-> Br, i |-> Bi] = BSeries(refs_r_d, refs_i_d, skip_iter)

\* The cells the SIMD groups of a row write: columns 0 .. 4*(width \div 4) - 1.
SimdCells(a) == {c \in Cells(a) : c % a.width < 4 * (a.width \div 4)}

\* The true first escape of the pixel (px, py): its delta is stepped one
\* iteration at a time from skip_iter and |X_n + delta_n|^2 > 4 is tested at
\* every index n < ref_iter, which is what the scalar tail loop does.
FirstEscape(a, k, c) == TailPixel(a, k, c % a.width, c \div a.width)

\* The lane of pixel c when the loops of its SIMD group are left.
LaneOf(a, k, c) ==
    GroupLanes(a, k, (c % a.width) - ((c % a.width) % 4),
               DeltaCi(a, c \div a.width))[((c % a.width) % 4) + 1]

\* The indices at which a SIMD group tests for escape: the end of every full
\* block of 4 from skip on, then every index of the remainder loop.
CheckPoints(skip, limit) ==
    {p \in skip + 1 .. limit : (p - skip) % 4 = 0}
      \cup {p \in skip .. limit - 1 : p >= skip + 4 * ((limit - skip) \div 4)}

\* The lane recorded its escape at the first check point at or after the
\* true escape index true.iter, at most 3 iterations after it.
RecordedAtNextCheck(l, true, points) ==
    true.kind = "smooth" =>
      /\ ~l.mask
      /\ l.iter \in points
      /\ l.iter - true.iter \in 0 .. 3
      /\ \A p \in points : p >= true.iter => p >= l.iter

\* C17: for every SIMD lane whose pixel escapes, the recorded escape index is
\* the first escape-check point at or after the lane's true first escape
\* index: it is never earlier and exceeds it by at most 3.
C17_SimdIndexWithinThree ==
    Approximated =>
      \A c \in SimdCells(args) :
        out[c] # Unwritten =>
          RecordedAtNextCheck(LaneOf(args, K, c), FirstEscape(args, K, c),
                              CheckPoints(skip_iter, ref_iter))

\* The escape tests of the pixel loops, each as the index x of the reference
\* entry it reads, the index d of the delta it adds and the index rec it
\* records: the check after every full block of 4 from skip on, and the test
\* at every index of the remainder loop and of the scalar tail.
EscapeTests(skip, limit) ==
    {[x |-> CheckIdx(i, limit), d |-> i + 4, rec |-> i + 4] :
       i \in {j \in skip .. limit : (j - skip) % 4 = 0 /\ j + 4 <= limit}}
      \cup {[x |-> i, d |-> i, rec |-> i] : i \in skip .. limit - 1}

\* C18: once a SIMD group of a valid frame has run, every escape test of the
\* perturbation kernel's pixel loops has read the reference entry X_n of the
\* same index n as its delta, and records that n.
C18_TestsUseSameIndex ==
    (Approximated /\ \E c \in SimdCells(args) : out[c] # Unwritten) =>
      \A t \in EscapeTests(skip_iter, ref_iter) : t.x = t.d /\ t.rec = t.d

\* |B| * r_view is below 1e-12, with r_view the kernel's max_dc.
BelowThreshold(a, B) ==
    FLt(FMul(B_mag(B.r, B.i), max_dc(a), DoubleDigits),
        FNorm(1, -12, DoubleDigits), DoubleDigits)

\* C19: after the linear-approximation loop of a valid frame,
\* 0 <= skip_iter <= ref_iter, |B_m| * r_view is below 1e-12 for every
\* m <= skip_iter, and skip_iter is the largest such index up to ref_iter:
\* either it is ref_iter or |B_(skip_iter+1)| * r_view is not below 1e-12.
C19_SkipIsLargestBelow ==
    Approximated =>
      /\ 0 <= skip_iter /\ skip_iter <= ref_iter
      /\ \A m \in 0 .. skip_iter :
           BelowThreshold(args, BSeries(refs_r_d, refs_i_d, m))
      /\ skip_iter < ref_iter =>
           ~BelowThreshold(args, BSeries(refs_r_d, refs_i_d, skip_iter + 1))

\* The reference orbit as the recurrence defines it: X_0 = 0,
\* X_{n+1} = X_n^2 + c0, in quad.
RECURSIVE XSeries(_, _, _)
XNext(x, cr, ci) ==
    [r |-> FAdd(FSub(FMul(x.r, x.r, QuadDigits), FMul(x.i, x.i, QuadDigits),
                     QuadDigits), cr, QuadDigits),
     i |-> FAdd(FMul(FMul(FInt(2, QuadDigits), x.r, QuadDigits), x.i, QuadDigits),
                ci, QuadDigits)]

XSeries(cr, ci, n) ==
    IF n <= 0 THEN [r |-> FZero, i |-> FZero]
    ELSE XNext(XSeries(cr, ci, n - 1), cr, ci)

\* |X|^2 > 4 in quad.
XEscaped(x) == FGt(SumSq(x.r, x.i, QuadDigits), FInt(4, QuadDigits), QuadDigits)

\* The reference orbit loop has run.
OrbitBuilt ==
    /\ kernel = "perturbation"
    /\ pc \in {"approx", "parallel", "free"} \/ Completed

\* C20: after the reference orbit is built, 0 <= ref_iter <= max_iter, no
\* X_n with n < ref_iter has |X_n|^2 > 4, and ref_iter < max_iter only when
\* |X_ref_iter|^2 > 4: ref_iter is the smallest escaping index, or max_iter
\* when there is none below it.  The entries stored are the X_n.
C20_RefIterIsFirstEscape ==
    OrbitBuilt =>
      /\ 0 <= ref_iter /\ ref_iter <= args.max_iter
      /\ \A n \in 0 .. ref_iter - 1 :
           ~XEscaped(XSeries(center_r(args), center_i(args), n))
      /\ ref_iter < args.max_iter =>
           XEscaped(XSeries(center_r(args), center_i(args), ref_iter))
      /\ \A n \in 1 .. Len(refs_r) :
           [r |-> refs_r[n], i |-> refs_i[n]]
             = XSeries(center_r(args), center_i(args), n - 1)

\* The reference orbit of a valid frame escaped before the cap, after at
\* least one step.
C20_Witness ==
    /\ OrbitBuilt
    /\ ValidRequest(args)
    /\ 0 < ref_iter /\ ref_iter < args.max_iter
    /\ Len(refs_r) = ref_iter + 1

\* The escape checks of a SIMD group in the order they are made.  Each is
\* [loop, pre, post, input]: the loop it belongs to, the lanes before and
\* after the check, and - unless the check ended the loops, when input is
\* <<>> - the lanes as the code following the check hands them to the next
\* perturbation step: masked by vmask in the unrolled loop, as they are in
\* the remainder loop, which masks the result of the step instead.
RECURSIVE RemainderTrace(_, _, _, _, _)
RemainderTraceNext(k, v, c, dci, i, limit) ==
    IF AllInactive(c)
    THEN << [loop |-> "remainder", pre |-> v, post |-> c, input |-> <<>>] >>
    ELSE << [loop |-> "remainder", pre |-> v, post |-> c, input |-> c] >>
         \o RemainderTrace(k,
                [n \in 1..4 |->
                   LaneZero(LaneStep(c[n], k.refs_r_d[i + 1], k.refs_i_d[i + 1], dci))],
                dci, i + 1, limit)

RemainderTrace(k, v, dci, i, limit) ==
    IF i >= limit THEN <<>>
    ELSE RemainderTraceNext(k, v,
             [n \in 1..4 |->
                LaneCheck(v[n], k.refs_r_d[i + 1], k.refs_i_d[i + 1], i)],
             dci, i, limit)

RECURSIVE UnrolledTrace(_, _, _, _, _)
UnrolledTraceNext(k, s, c, dci, i, limit) ==
    IF AllInactive(c)
    THEN << [loop |-> "unrolled", pre |-> s, post |-> c, input |-> <<>>] >>
    ELSE << [loop |-> "unrolled", pre |-> s, post |-> c,
             input |-> [n \in 1..4 |-> LaneZero(c[n])]] >>
         \o UnrolledTrace(k, [n \in 1..4 |-> LaneZero(c[n])], dci, i + 4, limit)

UnrolledTraceCheck(k, s, dci, i, limit) ==
    UnrolledTraceNext(k, s, CheckAll(k, s, CheckIdx(i, k.ref_iter), i + 4),
                      dci, i, limit)

UnrolledTrace(k, v, dci, i, limit) ==
    IF i >= limit \/ i + 4 > limit THEN RemainderTrace(k, v, dci, i, limit)
    ELSE UnrolledTraceCheck(k,
             StepAll(k, StepAll(k, StepAll(k, StepAll(k, v, dci, i),
                                           dci, i + 1), dci, i + 2), dci, i + 3),
             dci, i, limit)

\* The checks of the SIMD group that wrote cell c.
GroupTrace(a, k, c) ==
    UnrolledTrace(k,
        [n \in 1..4 |->
           LaneInit(k, DeltaCr(a, (c % a.width) - ((c % a.width) % 4) + n - 1),
                    DeltaCi(a, c \div a.width))],
        DeltaCi(a, c \div a.width), k.skip_iter, k.ref_iter)

\* The pixel loops of the perturbation kernel have started.
PixelLoops ==
    /\ kernel = "perturbation"
    /\ pc \in {"parallel", "free"} \/ Completed

\* Every lane that is inactive has a zero delta.
InactiveAreZero(v) ==
    \A n \in 1..Len(v) : ~v[n].mask => v[n].dzr = FZero /\ v[n].dzi = FZero

\* C21: for every SIMD group that has run, after every escape check that
\* does not end the loop, every inactive lane has delta = 0 when the next
\* perturbation step is applied, in the unrolled and in the remainder loop.
C21_InactiveLanesZeroed ==
    PixelLoops =>
      \A c \in SimdCells(args) :
        out[c] # Unwritten =>
          \A e \in 1 .. Len(GroupTrace(args, K, c)) :
            InactiveAreZero(GroupTrace(args, K, c)[e].input)

\* A worker of the parallel loop holds an iteration it has not finished.
WorkerBusy == \E t \in Threads : wk[t].lo < wk[t].hi

\* The reference arrays hold the whole reference orbit of the call and
\* skip_iter and B are those of its linear approximation.
ReferenceBuilt(o) ==
    /\ <<refs_r, refs_i, ref_iter>> = <<o.refs_r, o.refs_i, o.ref_iter>>
    /\ <<refs_r_d, refs_i_d>> = <<CastSeq(o.refs_r), CastSeq(o.refs_i)>>
    /\ [Br |-> Br, Bi |-> Bi, skip_iter |-> skip_iter]
         = LinearApproximation(args, o.refs_r, o.refs_i, o.ref_iter)

\* C22: within a call of the perturbation kernel, while the parallel region
\* is open or a worker holds work, all four reference arrays are allocated
\* and the reference orbit and the coefficient are fully built; no array is
\* released while a worker holds work or handed-out work is left (an early
\* return releases them before any work is handed out); and every step in
\* which a worker computes pixels (the only steps that read the arrays) is
\* taken with the arrays allocated and leaves them allocated.
C22_SetupBeforeWorkersReleaseAfter ==
    /\ [](kernel = "perturbation" =>
            /\ (pc = "parallel" \/ WorkerBusy) =>
                 /\ \A x \in Arrays : heap[x] = "live"
                 /\ ReferenceBuilt(ReferenceOrbit(args))
            /\ (\E x \in Arrays : heap[x] = "freed") =>
                 ~WorkerBusy /\ (next = 0 \/ next >= Total))
    /\ [][(kernel = "perturbation" /\ out' # out /\ pc \notin {"idle", "returned"}) =>
            /\ \A x \in Arrays : heap[x] = "live"
            /\ heap' = heap]_vars

\* The arrays were released after both workers of a two-thread call had
\* written cells of the frame.
C22_Witness ==
    /\ Completed
    /\ kernel = "perturbation"
    /\ nthreads = 2
    /\ args.height = 2
    /\ AllWritten /\ Cells(args) # {}

\* The cells of the rows thread t holds in the perturbation kernel's row loop.
OwnCells(t) ==
    {c \in DOMAIN out : wk[t].lo < wk[t].hi /\ args.width > 0
                          /\ (c \div args.width) \in wk[t].lo .. (wk[t].hi - 1)}

\* A step taken inside the parallel region of the perturbation kernel.
RegionStep == kernel = "perturbation" /\ pc = "parallel" /\ pc' = "parallel"

\* C23: during the parallel region of the perturbation kernel no step of a
\* worker changes the reference arrays, ref_iter, skip_iter or B (so they keep
\* the values they had when the region opened), the allocation state of the
\* arrays is untouched, and every cell of out that a step changes or stores
\* into lies in a row held by a thread at that step.
C23_WorkersOnlyWriteOwnCells ==
    [][RegionStep =>
         /\ kernelVars' = kernelVars
         /\ heap' = heap
         /\ args' = args
         /\ DOMAIN out' = DOMAIN out
         /\ \A c \in DOMAIN out :
               (out'[c] # out[c] \/ nwrites'[c] # nwrites[c]) =>
                   \E t \in Threads : c \in OwnCells(t)]_vars

C23_Witness ==
    /\ kernel = "perturbation"
    /\ pc = "parallel"
    /\ nthreads = 2
    /\ \A t \in Threads : wk[t].lo < wk[t].hi
    /\ \E c \in DOMAIN out : out[c] # Unwritten
    /\ \E c \in DOMAIN out : out[c] = Unwritten

\* The number of iteration steps of Z the loop of a scalar kernel has executed
\* when it returns cell: i when it returns at the escape test of index i,
\* max_iter when it runs to the end.
LoopSteps(cell, max_iter) == IF cell.kind = "smooth" THEN cell.iter ELSE max_iter

\* The number of iteration steps mandelbrot_point_smooth_double executes for
\* the point (cr, ci): none when the cardioid test returns.
DoubleSteps(cr, ci, max_iter) ==
    IF InCardioid(cr, ci) THEN 0
    ELSE LoopSteps(PointLoop(cr, ci, FZero, FZero, FZero, FZero, 0, max_iter,
                             DoubleDigits), max_iter)

DoubleStepsAt(c, max_iter) == DoubleSteps(c[1], c[2], max_iter)

\* C24: in the double kernel a written cell whose point satisfies the
\* period-2 bulb predicate (cr + 1)^2 + ci^2 < 1/16 holds -max_iter and was
\* returned before any iteration step of Z was executed.
C24_BulbReturnsBeforeIterating ==
    (kernel = "double" /\ pc # "idle" /\ ValidRequest(args)) =>
      \A c \in Cells(args) :
        (out[c] # Unwritten
           /\ InBulb(PixelC(args, kernel, c % args.width, c \div args.width)[1],
                     PixelC(args, kernel, c % args.width, c \div args.width)[2]))
          => /\ out[c] = Sentinel(args.max_iter)
             /\ DoubleStepsAt(PixelC(args, kernel, c % args.width, c \div args.width),
                              args.max_iter) = 0

\* The digits a scalar kernel iterates in.
KernelDigits(kern) == IF kern = "double" THEN DoubleDigits ELSE LongDigits

\* The point a scalar branch hands to its kernel for pixel (px, py).
ScalarPoint(a, px, py, P) ==
    <<PixelCoord(FCast(STRTOREAL128(a.xmin_str), P), FCast(dx_q(a), P), px, P),
      PixelCoord(FCast(STRTOREAL128(a.ymin_str), P), FCast(dy_q(a), P), py, P)>>

\* The orbit Z_0 = 0, Z_{n+1} = Z_n^2 + c in P digits.
ZNext(z, c, P) ==
    <<FAdd(FSub(FMul(z[1], z[1], P), FMul(z[2], z[2], P), P), c[1], P),
      FAdd(FMul(FMul(FInt(2, P), z[1], P), z[2], P), c[2], P)>>

RECURSIVE ZSeries(_, _, _)
ZSeries(c, n, P) ==
    IF n <= 0 THEN <<FZero, FZero>> ELSE ZNext(ZSeries(c, n - 1, P), c, P)

\* |Z|^2 > 256 in P digits.
ZEscaped(z, P) == FGt(SumSq(z[1], z[2], P), FInt(256, P), P)

\* The indices n < max_iter with |Z_n|^2 > 256.
EscapeIndices(c, max_iter, P) ==
    {n \in 0 .. (max_iter - 1) : ZEscaped(ZSeries(c, n, P), P)}

\* cell is escaped with the smallest index of E, or the sentinel when E is
\* empty.
EscapeMatches(cell, E, max_iter) ==
    /\ cell.kind = "smooth" <=> E # {}
    /\ cell = Sentinel(max_iter) <=> E = {}
    /\ cell.kind = "smooth" => cell.iter \in E /\ \A n \in E : cell.iter <= n

\* The point of cell c passes the cardioid test of its scalar kernel.
CardioidReturns(a, kern, c) ==
    InCardioid(PixelC(a, kern, c % a.width, c \div a.width)[1],
               PixelC(a, kern, c % a.width, c \div a.width)[2])

\* C25: in the double and extended kernels, a written cell of a valid frame
\* whose point does not pass the kernel's interior test is escaped with index
\* i exactly when i is the smallest n < max_iter with |Z_n|^2 > 256, and is
\* -max_iter exactly when there is no such n.
C25_EscapeIndexIsFirstAbove256 ==
    (kernel \in {"double", "long"} /\ pc # "idle" /\ ValidRequest(args)) =>
      \A c \in Cells(args) :
        (out[c] # Unwritten /\ ~CardioidReturns(args, kernel, c)) =>
          EscapeMatches(out[c],
                        EscapeIndices(ScalarPoint(args, c % args.width,
                                                  c \div args.width,
                                                  KernelDigits(kernel)),
                                      args.max_iter, KernelDigits(kernel)),
                        args.max_iter)

C25_Witness ==
    /\ Completed
    /\ ValidRequest(args)
    /\ kernel \in {"double", "long"}
    /\ \E c \in Cells(args) :
          /\ ~CardioidReturns(args, kernel, c)
          /\ out[c].kind = "smooth" /\ out[c].iter = args.max_iter - 1
          /\ out[c].iter >= 2
    /\ \E c \in Cells(args) :
          ~CardioidReturns(args, kernel, c) /\ out[c] = Sentinel(args.max_iter)

\* ------------------------------------------------ the legacy integer kernels
\* The largest max_iter the legacy kernels are compared at.
LegacyMaxIter == 9

\* zr, zi, zr2, zi2 of the legacy kernels, in double.
LegacyZero == [zr |-> FZero, zi |-> FZero, zr2 |-> FZero, zi2 |-> FZero]

LegacySquares(nzr, nzi) ==
    [zr |-> nzr, zi |-> nzi,
     zr2 |-> FMul(nzr, nzr, DoubleDigits), zi2 |-> FMul(nzi, nzi, DoubleDigits)]

\* zi = 2.0 * zr * zi + ci; zr = zr2 - zi2 + cr; zr2 = zr * zr; zi2 = zi * zi.
LegacyIterate(z, cr, ci) ==
    LegacySquares(FAdd(FSub(z.zr2, z.zi2, DoubleDigits), cr, DoubleDigits),
                  FAdd(FMul(FMul(FInt(2, DoubleDigits), z.zr, DoubleDigits), z.zi,
                            DoubleDigits), ci, DoubleDigits))

\* zr2 + zi2 > 4.0
LegacyEscaped(z) ==
    FGt(FAdd(z.zr2, z.zi2, DoubleDigits), FInt(4, DoubleDigits), DoubleDigits)

\* The one-step-per-loop mandelbrot_point.
RECURSIVE LegacySimpleLoop(_, _, _, _, _)
LegacySimpleLoop(z, cr, ci, i, max_iter) ==
    IF i >= max_iter THEN max_iter
    ELSE IF LegacyEscaped(z) THEN i
    ELSE LegacySimpleLoop(LegacyIterate(z, cr, ci), cr, ci, i + 1, max_iter)

LegacySimple(cr, ci, max_iter) == LegacySimpleLoop(LegacyZero, cr, ci, 0, max_iter)

\* The loop of the unrolled mandelbrot_point that handles the remaining
\* iterations.
RECURSIVE LegacyRemainder(_, _, _, _, _)
LegacyRemainder(z, cr, ci, i, max_iter) ==
    IF i >= max_iter THEN max_iter
    ELSE IF LegacyEscaped(z) THEN i
    ELSE LegacyRemainder(LegacyIterate(z, cr, ci), cr, ci, i + 1, max_iter)

\* The unrolled loop: four tests and steps per pass while i < max_iter - 3.
RECURSIVE LegacyUnrolledLoop(_, _, _, _, _)
LegacyIteration4(z, cr, ci, i, max_iter) ==
    IF LegacyEscaped(z) THEN i + 3
    ELSE LegacyUnrolledLoop(LegacyIterate(z, cr, ci), cr, ci, i + 4, max_iter)

LegacyIteration3(z, cr, ci, i, max_iter) ==
    IF LegacyEscaped(z) THEN i + 2
    ELSE LegacyIteration4(LegacyIterate(z, cr, ci), cr, ci, i, max_iter)

LegacyIteration2(z, cr, ci, i, max_iter) ==
    IF LegacyEscaped(z) THEN i + 1
    ELSE LegacyIteration3(LegacyIterate(z, cr, ci), cr, ci, i, max_iter)

LegacyUnrolledLoopAll(z, cr, ci, i, max_iter) ==
    IF ~(i < max_iter) THEN LegacyRemainder(z, cr, ci, i, max_iter)
    ELSE IF LegacyEscaped(z) THEN i
    ELSE LegacyIteration2(LegacyIterate(z, cr, ci), cr, ci, i, max_iter)

LegacyUnrolledLoop(z, cr, ci, i, max_iter) ==
    IF ~(i < max_iter - 3) THEN LegacyRemainder(z, cr, ci, i, max_iter)
    ELSE IF LegacyEscaped(z) THEN i
    ELSE LegacyIteration2(LegacyIterate(z, cr, ci), cr, ci, i, max_iter)

\* The unrolled mandelbrot_point with its cardioid and period-2 bulb tests.
LegacyUnrolled(cr, ci, max_iter) ==
    IF InCardioid(cr, ci) THEN max_iter
    ELSE IF InBulb(cr, ci) THEN max_iter
    ELSE LegacyUnrolledLoop(LegacyZero, cr, ci, 0, max_iter)

\* The smallest element of E, or m when E is empty.
MinOr(E, m) == IF E = {} THEN m ELSE CHOOSE n \in E : \A k \in E : n <= k

\* |z|^2 > 4 in double.
LegacyOut(z) ==
    FGt(SumSq(z[1], z[2], DoubleDigits), FInt(4, DoubleDigits), DoubleDigits)

\* The smallest i < max_iter with |z_i|^2 > 4, or max_iter.
LegacyFirstEscape(c, max_iter) ==
    MinOr({n \in 0 .. (max_iter - 1) : LegacyOut(ZSeries(c, n, DoubleDigits))}, max_iter)

\* A frame of the double branch is about to be computed: its pixel points
\* are the points the legacy kernels are compared at.
LegacyPoints ==
    /\ kernel = "double" /\ pc = "parallel" /\ next = 0
    /\ \A t \in Threads : wk[t] = Idle
    /\ ValidRequest(args)

LegacyAgree(c, m) ==
    /\ LegacyUnrolled(c[1], c[2], m) = LegacySimple(c[1], c[2], m)
    /\ LegacySimple(c[1], c[2], m) = LegacyFirstEscape(c, m)

\* C26: for every max_iter in 0 .. LegacyMaxIter and every pixel point that
\* passes neither the cardioid nor the bulb test, the 4-times unrolled legacy
\* kernel returns what the one-step-per-loop legacy kernel returns: the
\* smallest i < max_iter with |z_i|^2 > 4, or max_iter.
C26_UnrolledEqualsSimple ==
    LegacyPoints =>
      \A c \in Cells(args) : \A m \in 0 .. LegacyMaxIter :
        ~Interior(PixelC(args, "double", c % args.width, c \div args.width))
          => LegacyAgree(PixelC(args, "double", c % args.width, c \div args.width), m)

LegacyReturns(c, m, i) == ~Interior(c) /\ LegacyUnrolled(c[1], c[2], m) = i

\* Some pixel point of the frame makes the unrolled kernel return i under the
\* cap m.
SomePointReturns(m, i) ==
    \E c \in Cells(args) :
      LegacyReturns(PixelC(args, "double", c % args.width, c \div args.width), m, i)

C26_Witness ==
    /\ LegacyPoints
    /\ \E m \in 5 .. LegacyMaxIter : \E i \in 4 .. (m - 1) :
          m % 4 # 0 /\ SomePointReturns(m, i)
    /\ \E m \in 1 .. 3 : \E i \in 0 .. (m - 1) : SomePointReturns(m, i)
    /\ SomePointReturns(LegacyMaxIter, LegacyMaxIter)
    /\ SomePointReturns(0, 0)

\* The indices at which the loops of a SIMD group read refs_r_d and refs_i_d
\* from iteration i on, on the path no early exit cuts short: a pass of the
\* unrolled loop reads i .. i+3 and check_idx, the remainder loop reads i.
RemainderReads(i, limit) == i .. (limit - 1)

RECURSIVE UnrolledReads(_, _, _)
UnrolledReads(i, limit, ref) ==
    IF i >= limit \/ i + 4 > limit THEN RemainderReads(i, limit)
    ELSE {i, i + 1, i + 2, i + 3, CheckIdx(i, ref)} \cup UnrolledReads(i + 4, limit, ref)

\* The indices the scalar tail reads.
TailReads(skip, limit) == skip .. (limit - 1)

\* The indices at which the linear approximation loop reads refs_r and refs_i.
ApproximationReads(ref) == 0 .. (ref - 1)

AllReads(skip, ref) ==
    UnrolledReads(skip, ref, ref) \cup TailReads(skip, ref) \cup ApproximationReads(ref)

\* Index r of the reference arrays was written by the reference orbit loop.
Written(r) ==
    /\ r + 1 \in DOMAIN refs_r /\ r + 1 \in DOMAIN refs_i
    /\ r + 1 \in DOMAIN refs_r_d /\ r + 1 \in DOMAIN refs_i_d

\* C27: every index at which the perturbation kernel reads the reference
\* arrays, the clamped check_idx included, lies in [0, max_iter] and was
\* written by the reference orbit loop of the call.
C27_ReadsAreWritten ==
    (PixelLoops /\ args.max_iter >= 1) =>
      \A r \in AllReads(skip_iter, ref_iter) :
        r >= 0 /\ r <= args.max_iter /\ Written(r)

C27_Witness ==
    /\ Completed /\ kernel = "perturbation" /\ ValidRequest(args)
    /\ args.width = 5
    /\ ref_iter = args.max_iter
    /\ ref_iter - skip_iter \in {4, 5}
    /\ CheckIdx(skip_iter, ref_iter) = ref_iter - 1
    /\ CheckIdx(skip_iter, ref_iter) \in AllReads(skip_iter, ref_iter)
    /\ AllWritten

\* What a lane has recorded: its mask bit, escape index and modulus.
Recorded(l) == <<l.mask, l.iter, l.mod>>

\* One escape check of a lane, from pre to post: a retired lane stays retired
\* and keeps its record; an active lane's record is written only if the check
\* retires it, with a modulus above 4.
CheckKeeps(pre, post) ==
    /\ ~pre.mask => Recorded(post) = Recorded(pre)
    /\ (pre.mask /\ post.mask) => Recorded(post) = Recorded(pre)
    /\ (pre.mask /\ ~post.mask) =>
          FGt(post.mod, FInt(4, DoubleDigits), DoubleDigits)

\* Along the checks T of a group, every check keeps the records as above and
\* the iteration steps between two checks leave them alone.
RecordsWrittenOnce(T) ==
    /\ \A e \in 1 .. Len(T) : \A n \in 1..4 : CheckKeeps(T[e].pre[n], T[e].post[n])
    /\ \A e \in 1 .. (Len(T) - 1) : \A n \in 1..4 :
          Recorded(T[e + 1].pre[n]) = Recorded(T[e].post[n])

\* C28: in every SIMD group that has run, a lane whose mask bit was cleared
\* never has it set again, and its escape index and modulus are written at
\* most once, at the check that retires it; no later check or step changes
\* them.
C28_MaskMonotoneRecordOnce ==
    PixelLoops =>
      \A c \in SimdCells(args) :
        out[c] # Unwritten => RecordsWrittenOnce(GroupTrace(args, K, c))

\* A lane retired at an earlier check is checked again while another lane is
\* still active.
RetiredChecked(T) ==
    \E e \in 2 .. Len(T) : \E n, m \in 1..4 :
      ~T[e].pre[n].mask /\ T[e].pre[m].mask

C28_Witness ==
    /\ PixelLoops
    /\ \E c \in SimdCells(args) :
          out[c] # Unwritten /\ RetiredChecked(GroupTrace(args, K, c))

\* ------------------------------------------------ the pixel maps, exactly
\* Rationals <<numerator, denominator>> with a positive denominator.
RAdd(p, q) == <<p[1] * q[2] + q[1] * p[2], p[2] * q[2]>>
RSub(p, q) == <<p[1] * q[2] - q[1] * p[2], p[2] * q[2]>>
RMul(p, q) == <<p[1] * q[1], p[2] * q[2]>>
RDivInt(p, n) == <<p[1], p[2] * n>>
REq(p, q) == p[1] * q[2] = q[1] * p[2]
RInt(n) == <<n, 1>>

\* The exponent of the unit two parsed endpoints are both whole multiples of.
UnitExp(lo, hi) ==
    IF lo.m = 0 THEN hi.e ELSE IF hi.m = 0 THEN lo.e ELSE Min(lo.e, hi.e)

\* A parsed endpoint as a whole number of units 10^u.
InUnits(x, u) == IF x.m = 0 THEN RInt(0) ELSE RInt(x.m * Pow10(x.e - u))

\* size / 2 as the integer division would give it.
HalfSizeWhole(size) == RInt(size \div 2)

\* size / 2.0
HalfSize(size) == RDivInt(RInt(size), 2)

\* The scalar branches' lo + step * n with step = (hi - lo) / size.
ExactScalarCoord(lo, hi, n, size) ==
    RAdd(lo, RMul(RDivInt(RSub(hi, lo), size), RInt(n)))

\* The perturbation branch's centre (lo + hi) / 2 plus its delta c,
\* (n - size / 2.0) * step with step = (hi - lo) / size.
ExactPerturbationCoord(lo, hi, n, size) ==
    RAdd(RDivInt(RAdd(lo, hi), 2),
         RMul(RSub(RInt(n), HalfSize(size)), RDivInt(RSub(hi, lo), size)))

\* The two maps give the same coordinate to every pixel index of an axis.
AxisAgrees(lo, hi, size, u) ==
    \A n \in 0 .. (size - 1) :
      REq(ExactPerturbationCoord(InUnits(lo, u), InUnits(hi, u), n, size),
          ExactScalarCoord(InUnits(lo, u), InUnits(hi, u), n, size))

AxisOf(lo, hi, size) == AxisAgrees(lo, hi, size, UnitExp(lo, hi))

\* C29: for the view, width and height of every call with width > 0 and
\* height > 0, and every pixel (px, py), the point centre + delta_c of the
\* perturbation kernel equals in exact arithmetic the point
\* (xmin + dx*px, ymin + dy*py) of the scalar kernels, odd width and height
\* included.
C29_PixelMapsAgreeExactly ==
    (pc # "idle" /\ args.width > 0 /\ args.height > 0) =>
      /\ AxisOf(STRTOREAL128(args.xmin_str), STRTOREAL128(args.xmax_str), args.width)
      /\ AxisOf(STRTOREAL128(args.ymin_str), STRTOREAL128(args.ymax_str), args.height)

C29_Witness ==
    /\ Completed /\ AllWritten
    /\ kernel = "perturbation"
    /\ args.width = 5 /\ args.height = 1
    /\ STRTOREAL128(args.xmax_str) # STRTOREAL128(args.xmin_str)
    /\ STRTOREAL128(args.ymax_str) # FNeg(STRTOREAL128(args.ymin_str))

====
